---- MODULE Spec2Model ----
(***************************************************************************)
(* Workflow execution engine (backend/workflows/execution_engine.py).      *)
(*                                                                         *)
(* One run of WorkflowExecutionEngine.execute_workflow over a node list    *)
(* and an edge list: the ExecutionContext it builds, the topological sort, *)
(* the partial-run subgraph, the per-node dispatch and the progress        *)
(* callback.  A step of the model is one block of the driver between two   *)
(* points where the context can be observed (a status change, an await).   *)
(***************************************************************************)
EXTENDS Naturals, Integers, Sequences, FiniteSets, TLC

\* ------------------------------------------------------------------ bounds
\* Largest number of entries of the node list, and of distinct node ids.
MaxNodes == 3
\* Largest number of entries of the edge list.
MaxEdges == 2

\* ----------------------------------------------------------------- helpers
Range(s) == {s[i] : i \in 1..Len(s)}

\* Index of the first occurrence of x in s (0 when absent).
IndexOf(s, x) ==
  IF x \in Range(s) THEN CHOOSE i \in 1..Len(s) : s[i] = x /\ \A j \in 1..(i-1) : s[j] # x
  ELSE 0

\* Names of the node ids, by rank.
IdPool == <<"a", "b", "c", "d", "e", "f">>
Ids == {IdPool[i] : i \in 1..MaxNodes}

\* Node lists up to a renaming of the ids: the k-th entry is IdPool[k].
UniqueNodeLists == {[i \in 1..n |-> IdPool[i]] : n \in 0..MaxNodes}
\* The caller's list is not checked for repeated ids: a list of distinct ids
\* followed by its first id again.
RepeatedNodeLists ==
  {Append(l, l[1]) : l \in {u \in UniqueNodeLists : 0 < Len(u) /\ Len(u) < MaxNodes}}
NodeLists == UniqueNodeLists \cup RepeatedNodeLists

\* The ids a request over the node list ns may name in an edge or as the
\* target of a partial run: the ids of ns and, as ids that name no node are
\* alike, one further id (while the pool of MaxNodes ids has one).
Min(x, y) == IF x <= y THEN x ELSE y
RequestIds(ns) == {IdPool[i] : i \in 1..Min(Cardinality(Range(ns)) + 1, MaxNodes)}

\* An edge carries a source and a target id; either may name no node.
Edge(ids) == [source : ids, target : ids]
EdgeLists(ids) == UNION {[1..n -> Edge(ids)] : n \in 0..MaxEdges}

Modes == {"full", "partial", "partial_downstream"}

\* ------------------------------------------------- _topological_sort (Kahn)
\* The keys of a dict built from the node list: each id once, first seen first.
RECURSIVE DictKeys(_)
DictKeys(ns) ==
  IF ns = <<>> THEN <<>>
  ELSE LET rest == DictKeys(SubSeq(ns, 1, Len(ns) - 1))
           last == ns[Len(ns)]
       IN  IF last \in Range(rest) THEN rest ELSE Append(rest, last)

\* adjacency[source].append(target) and in_degree[target] += 1 raise KeyError
\* for an id that is no key.
EdgesKnown(keys, es) ==
  \A i \in 1..Len(es) : es[i].source \in Range(keys) /\ es[i].target \in Range(keys)

\* in_degree after the edge loop.
InDegree(keys, es) ==
  [n \in Range(keys) |-> Cardinality({i \in 1..Len(es) : es[i].target = n})]

\* adjacency after the edge loop: the targets of n's edges, in edge-list order.
RECURSIVE TargetsOf(_, _)
TargetsOf(n, es) ==
  IF es = <<>> THEN <<>>
  ELSE LET rest == TargetsOf(n, Tail(es))
       IN  IF Head(es).source = n THEN <<Head(es).target>> \o rest ELSE rest

Adjacency(keys, es) == [n \in Range(keys) |-> TargetsOf(n, es)]

\* queue = [node_id for node_id, degree in in_degree.items() if degree == 0]
InitialQueue(keys, indeg) == SelectSeq(keys, LAMBDA n : indeg[n] = 0)

\* for neighbor in adjacency[current]: in_degree[neighbor] -= 1; queue it at 0.
RECURSIVE ReduceInDegree(_, _, _)
ReduceInDegree(nbrs, indeg, queue) ==
  IF nbrs = <<>> THEN [in_degree |-> indeg, queue |-> queue]
  ELSE LET n == Head(nbrs)
           d == indeg[n] - 1
       IN  ReduceInDegree(Tail(nbrs), [indeg EXCEPT ![n] = d],
                          IF d = 0 THEN Append(queue, n) ELSE queue)

\* Mutant of KahnLoop: the queue is used as a stack (queue.pop()).
RECURSIVE KahnLoop_Lifo(_, _, _, _)
KahnLoop_Lifo(queue, indeg, adj, out) ==
  IF queue = <<>> THEN out
  ELSE LET current == queue[Len(queue)]
           r == ReduceInDegree(adj[current], indeg, SubSeq(queue, 1, Len(queue) - 1))
       IN  KahnLoop_Lifo(r.queue, r.in_degree, adj, Append(out, current))

\* while queue: current = queue.pop(0); execution_order.append(current); ...
RECURSIVE KahnLoop(_, _, _, _)
KahnLoop(queue, indeg, adj, out) ==
  IF queue = <<>> THEN out
  ELSE LET current == Head(queue)
           r == ReduceInDegree(adj[current], indeg, Tail(queue))
       IN  KahnLoop(r.queue, r.in_degree, adj, Append(out, current))

\* Mutant of CycleCheck: the length test is dropped.
CycleCheck_Dropped(execution_order, ns) == TRUE

\* if len(execution_order) != len(nodes): raise ValueError(...)
CycleCheck(execution_order, ns) == Len(execution_order) = Len(ns)

\* Kahn's algorithm over the dicts built from ns and es.
KahnOrder(ns, es) ==
  LET keys == DictKeys(ns)
      indeg == InDegree(keys, es)
  IN  KahnLoop(InitialQueue(keys, indeg), indeg, Adjacency(keys, es), <<>>)

\* Mutant of _topological_sort: source and target are swapped while the
\* adjacency lists are built.
_topological_sort_Swapped(ns, es) ==
  LET keys == DictKeys(ns)
      swapped == [i \in 1..Len(es) |-> [source |-> es[i].target, target |-> es[i].source]]
  IN  IF ~EdgesKnown(keys, es) THEN [raised |-> "KeyError", order |-> <<>>]
      ELSE LET execution_order == KahnOrder(ns, swapped)
           IN  IF CycleCheck(execution_order, ns)
               THEN [raised |-> "none", order |-> execution_order]
               ELSE [raised |-> "ValueError", order |-> <<>>]

\* The result of _topological_sort: the order, or the exception it raises.
_topological_sort(ns, es) ==
  LET keys == DictKeys(ns) IN
  IF ~EdgesKnown(keys, es) THEN [raised |-> "KeyError", order |-> <<>>]
  ELSE LET execution_order == KahnOrder(ns, es)
       IN  IF CycleCheck(execution_order, ns)
           THEN [raised |-> "none", order |-> execution_order]
           ELSE [raised |-> "ValueError", order |-> <<>>]

\* ------------------------------------------------------ partial-run subgraph
\* for edge in edges: if edge['target'] == current and edge['source'] not in
\* dependencies: add it and queue it.
RECURSIVE ScanSources(_, _, _, _)
ScanSources(es, current, dependencies, queue) ==
  IF es = <<>> THEN [found |-> dependencies, queue |-> queue]
  ELSE LET e == Head(es) IN
       IF e.target = current /\ e.source \notin dependencies
       THEN ScanSources(Tail(es), current, dependencies \cup {e.source},
                        Append(queue, e.source))
       ELSE ScanSources(Tail(es), current, dependencies, queue)

RECURSIVE DependenciesLoop(_, _, _)
DependenciesLoop(queue, dependencies, es) ==
  IF queue = <<>> THEN dependencies
  ELSE LET r == ScanSources(es, Head(queue), dependencies, Tail(queue))
       IN  DependenciesLoop(r.queue, r.found, es)

_get_dependencies(node_id, es) == DependenciesLoop(<<node_id>>, {}, es)

RECURSIVE ScanTargets(_, _, _, _)
ScanTargets(es, current, downstream, queue) ==
  IF es = <<>> THEN [found |-> downstream, queue |-> queue]
  ELSE LET e == Head(es) IN
       IF e.source = current /\ e.target \notin downstream
       THEN ScanTargets(Tail(es), current, downstream \cup {e.target},
                        Append(queue, e.target))
       ELSE ScanTargets(Tail(es), current, downstream, queue)

RECURSIVE DownstreamLoop(_, _, _)
DownstreamLoop(queue, downstream, es) ==
  IF queue = <<>> THEN downstream
  ELSE LET r == ScanTargets(es, Head(queue), downstream, Tail(queue))
       IN  DownstreamLoop(r.queue, r.found, es)

_get_downstream(node_id, es) == DownstreamLoop(<<node_id>>, {}, es)

\* Mutant of _get_execution_subgraph: only the direct sources are taken.
_get_execution_subgraph_Direct(node_id, es, include_downstream) ==
  {es[i].source : i \in {j \in 1..Len(es) : es[j].target = node_id}} \cup {node_id}
    \cup (IF include_downstream THEN _get_downstream(node_id, es) ELSE {})

_get_execution_subgraph(node_id, es, include_downstream) ==
  LET result == _get_dependencies(node_id, es) \cup {node_id}
  IN  IF include_downstream THEN result \cup _get_downstream(node_id, es) ELSE result

\* The lists _execute_from_node hands to _topological_sort.
SubgraphNodes(ns, nodes_to_execute) ==
  SelectSeq(ns, LAMBDA n : n \in nodes_to_execute)
SubgraphEdges(es, nodes_to_execute) ==
  SelectSeq(es, LAMBDA e : e.source \in nodes_to_execute /\ e.target \in nodes_to_execute)

\* ------------------------------------------------------ _get_node_executor
\* The node types registered with node_registry (custom_nodes.py).
node_registry == {"custom-text-transform", "custom-math-calculator", "custom-json-processor"}

\* The built-in table: the executor class of each listed type.
TriggerTypes == {"when-chat-received", "webhook", "schedule", "manual-trigger"}
AITypes ==
  {"ai-agent", "openai", "anthropic", "google-gemini", "groq-llama", "groq-gemma",
   "question-answer-chain", "summarization-chain", "information-extractor",
   "text-classifier", "sentiment-analysis"}
ChatModelTypes == {"gpt-4-turbo", "gpt-3.5-turbo", "claude-3-opus", "claude-3-sonnet"}
MemoryTypes ==
  {"simple-memory", "vector-memory", "window-buffer-memory", "agent-flow-db-memory"}
ToolTypes == {"calculator", "web-search", "duckduckgo-search", "api-caller"}
FlowTypes == {"if-else", "switch", "merge"}
DataTypes == {"filter", "edit-fields", "code"}
ActionTypes == {"http-request", "google-sheets"}
OutputTypes == {"respond-to-chat", "readme-viewer"}

\* Mutant of _get_node_executor: a type outside the table gets the trigger
\* executor instead of a ValueError.
_get_node_executor_Lenient(node_type) ==
  IF node_type \in DataTypes THEN "DataNodeExecutor" ELSE "TriggerNodeExecutor"

\* The executor class chosen for a node type: the dynamic registry first, then
\* the table; "ValueError" stands for raise ValueError("Unknown node type").
_get_node_executor(node_type) ==
  IF node_type \in node_registry THEN "DynamicNodeExecutor"
  ELSE IF node_type \in TriggerTypes THEN "TriggerNodeExecutor"
  ELSE IF node_type \in AITypes THEN "AINodeExecutor"
  ELSE IF node_type \in ChatModelTypes THEN "ChatModelExecutor"
  ELSE IF node_type \in MemoryTypes THEN "MemoryExecutor"
  ELSE IF node_type \in ToolTypes THEN "ToolExecutor"
  ELSE IF node_type \in FlowTypes THEN "FlowNodeExecutor"
  ELSE IF node_type \in DataTypes THEN "DataNodeExecutor"
  ELSE IF node_type \in ActionTypes THEN "ActionNodeExecutor"
  ELSE IF node_type \in OutputTypes THEN "OutputNodeExecutor"
  ELSE "ValueError"

\* ------------------------------------------------------------------- state
VARIABLES
  nodes,            \* the caller's node list (ids, in list order)
  edges,            \* the caller's edge list
  mode,             \* how the run was started
  start_node_id,    \* the target of a partial run ("" in a full run)
  has_callback,     \* whether a progress_callback was supplied
  status,           \* context.status
  node_states,      \* context.node_states: id -> status of the node
  node_results,     \* context.node_results: id -> normalised result
  execution_order,  \* context.execution_order
  errors,           \* context.errors: id -> error text
  pc,               \* where the driver stands
  run_order,        \* the driver's local execution_order (the computed order)
  idx,              \* position in run_order of the node being dispatched
  raised,           \* the exception raised last ("none" if none)
  events,           \* the events handed to progress_callback, in order
  dispatched,       \* the node ids execute_node was called for, in order
  node_types,       \* node['data']['type'] of each node of the caller's list
  state_errors,     \* context.node_states[id]['error'], where that key is set
  call,             \* a function applied on its own: its name and arguments
  ret,              \* what that function returned ("pending" before the call)
  active_executions,\* engine.active_executions: execution id -> the run it names
  tasks,            \* the runs in progress on one engine, each with its Context
  active_listeners, \* webhook_listener.active_listeners: listener id -> listener
  listener_sse_connections, \* listener id -> the SSE connections registered for it
  listener_lock,    \* the thread that holds listener_lock (0 when it is free)
  threads           \* the threads calling into webhook_listener, each in one call

vars == <<nodes, edges, mode, start_node_id, has_callback, status, node_states,
          node_results, execution_order, errors, pc, run_order, idx, raised,
          events, dispatched, node_types, state_errors, call, ret,
          active_executions, tasks, active_listeners, listener_sse_connections,
          listener_lock, threads>>

inputs == <<nodes, edges, mode, start_node_id, has_callback, node_types>>
context == <<status, node_states, node_results, execution_order, errors, state_errors>>
engine == <<active_executions, tasks>>
webhooks == <<active_listeners, listener_sse_connections, listener_lock, threads>>
concurrent == <<engine, webhooks>>
applied == <<call, ret, concurrent>>

\* A dict with key k set to v.
DictSet(d, k, v) == [x \in DOMAIN d \cup {k} |-> IF x = k THEN v ELSE d[x]]
EmptyDict == [x \in {} |-> ""]

\* WorkflowExecutionEngine.__init__: no execution is registered, none runs.
NoTasks == active_executions = EmptyDict /\ tasks = <<>>

\* webhook_listener as imported: no listener, no connection, the lock free.
NoListeners ==
  /\ active_listeners = EmptyDict
  /\ listener_sse_connections = EmptyDict
  /\ listener_lock = 0
  /\ threads = <<>>

\* ExecutionContext.__init__: status running, every collection empty.  The
\* request is any node list (every node of a type of the built-in table), any edge list, a full run or a partial run from
\* any id, with or without a progress callback.  include_downstream=True is
\* reached only by calling _execute_from_node itself (execute_workflow passes
\* False), so that mode runs without execute_workflow's try/except.
Init ==
  /\ nodes \in NodeLists
  /\ edges \in EdgeLists(RequestIds(nodes))
  /\ mode \in Modes
  /\ start_node_id \in (IF mode = "full" THEN {""} ELSE RequestIds(nodes))
  /\ has_callback \in BOOLEAN
  /\ status = "running"
  /\ node_states = EmptyDict
  /\ node_results = EmptyDict
  /\ execution_order = <<>>
  /\ errors = EmptyDict
  /\ pc = "start"
  /\ run_order = <<>>
  /\ idx = 0
  /\ raised = "none"
  /\ events = <<>>
  /\ dispatched = <<>>
  /\ node_types = [n \in Range(nodes) |-> "manual-trigger"]
  /\ state_errors = EmptyDict
  /\ NoTasks /\ NoListeners
  /\ call = "none"
  /\ ret = "none"

\* _topological_sort applied on its own to any node list and edge list.
InitSort ==
  /\ nodes \in NodeLists
  /\ edges \in EdgeLists(RequestIds(nodes))
  /\ mode = "full" /\ start_node_id = "" /\ has_callback = FALSE
  /\ status = "running"
  /\ node_states = EmptyDict /\ node_results = EmptyDict /\ execution_order = <<>>
  /\ errors = EmptyDict /\ state_errors = EmptyDict
  /\ pc = "idle" /\ run_order = <<>> /\ idx = 0 /\ raised = "none"
  /\ events = <<>> /\ dispatched = <<>>
  /\ node_types = [n \in Range(nodes) |-> "manual-trigger"]
  /\ NoTasks /\ NoListeners
  /\ call = "_topological_sort"
  /\ ret = <<"pending">>

\* execution_order = self._topological_sort(nodes, edges)
TopologicalSort ==
  /\ ret = <<"pending">>
  /\ ret' = <<"return", _topological_sort(nodes, edges)>>
  /\ UNCHANGED <<inputs, context, pc, run_order, idx, raised, events, dispatched,
                 call, concurrent>>

SpecSort == InitSort /\ [][TopologicalSort]_vars

\* Node types a typed request draws from: one type of the trigger and output
\* lists, the five data transforms, a registered dynamic type and a type no
\* list has.
RequestTypes ==
  {"manual-trigger", "filter", "edit-fields", "code", "text-transform", "notes",
   "respond-to-chat", "custom-text-transform", "not-a-node-type"}

\* The edges of a chain through the node list, in list order.
ChainEdges(ns) == [i \in 1..(Len(ns) - 1) |-> [source |-> ns[i], target |-> ns[i + 1]]]

\* A full run of execute_workflow over a chain of distinct nodes of any of the
\* request types.
InitTyped ==
  /\ nodes \in UniqueNodeLists
  /\ edges = ChainEdges(nodes)
  /\ mode = "full"
  /\ start_node_id = ""
  /\ has_callback \in BOOLEAN
  /\ node_types \in [Range(nodes) -> RequestTypes]
  /\ status = "running"
  /\ node_states = EmptyDict
  /\ node_results = EmptyDict
  /\ execution_order = <<>>
  /\ errors = EmptyDict
  /\ state_errors = EmptyDict
  /\ pc = "start"
  /\ run_order = <<>>
  /\ idx = 0
  /\ raised = "none"
  /\ events = <<>>
  /\ dispatched = <<>>
  /\ NoTasks /\ NoListeners
  /\ call = "none"
  /\ ret = "none"

\* Whether the run is driven by execute_workflow (and so by its try/except).
Wrapped == mode # "partial_downstream"

\* Where control goes when an exception leaves the node loop or the sort.
OnException == IF Wrapped THEN "except" ELSE "raised"

\* Where control goes for position i of the order: the next node's first step,
\* or the end of the loop.
LoopAt(order, i) ==
  IF i <= Len(order)
  THEN (IF has_callback THEN "node_start" ELSE "dispatch")
  ELSE (IF Wrapped THEN "complete" ELSE "returned")

current == run_order[idx]

ProgressEvent(type, node_id) == [type |-> type, node_id |-> node_id]

\* error_msg = str(e) of the exception execute_node caught: the ValueError of
\* _get_node_executor for a type it does not know, an executor's error else.
error_msg(node_id) ==
  IF _get_node_executor(node_types[node_id]) = "ValueError"
  THEN "Unknown node type: " \o node_types[node_id]
  ELSE "Node execution failed"

\* The order the driver computes before its loop.
ComputeOrder ==
  IF mode = "full" THEN _topological_sort(nodes, edges)
  ELSE LET nodes_to_execute ==
             _get_execution_subgraph(start_node_id, edges, mode = "partial_downstream")
       IN  _topological_sort(SubgraphNodes(nodes, nodes_to_execute),
                             SubgraphEdges(edges, nodes_to_execute))

\* execute_workflow up to the node loop (or _execute_from_node up to its loop).
Begin ==
  /\ pc = "start"
  /\ LET r == ComputeOrder IN
       /\ raised' = r.raised
       /\ run_order' = r.order
       /\ idx' = 1
       /\ pc' = IF r.raised = "none" THEN LoopAt(r.order, 1) ELSE OnException
  /\ UNCHANGED <<inputs, applied, context, events, dispatched>>

\* await progress_callback({'type': 'node_start', ...}); the callback may raise.
ProgressNodeStart ==
  /\ pc = "node_start"
  /\ events' = Append(events, ProgressEvent("node_start", current))
  /\ \E ok \in BOOLEAN :
       IF ok THEN pc' = "dispatch" /\ raised' = raised
       ELSE pc' = OnException /\ raised' = "CallbackError"
  /\ UNCHANGED <<inputs, applied, context, run_order, idx, dispatched>>

\* Mutant of MarkRunning: the set_node_state(node_id, 'running') call is missing.
MarkRunning_Unmarked ==
  /\ pc = "dispatch"
  /\ dispatched' = Append(dispatched, current)
  /\ pc' = "execute"
  /\ UNCHANGED <<inputs, applied, context, run_order, idx, raised, events>>

\* execute_node up to the executor's call: the node is marked running.
MarkRunning ==
  /\ pc = "dispatch"
  /\ node_states' = DictSet(node_states, current, "running")
  /\ dispatched' = Append(dispatched, current)
  /\ pc' = "execute"
  /\ UNCHANGED <<inputs, applied, status, node_results, execution_order, errors,
                 state_errors, run_order, idx, raised, events>>

\* Mutant of ExecutorReturns: the node_complete event is never sent, the driver
\* goes straight on to the next node.
ExecutorReturns_Unannounced ==
  /\ pc = "execute"
  /\ node_results' = DictSet(node_results, current, [main |-> "data"])
  /\ node_states' = DictSet(node_states, current, "completed")
  /\ execution_order' = Append(execution_order, current)
  /\ pc' = LoopAt(run_order, idx + 1) /\ idx' = idx + 1
  /\ UNCHANGED <<inputs, applied, status, errors, state_errors, run_order, raised,
                 events, dispatched>>

\* The executor returned: the result is normalised and stored, the node is
\* marked completed and appended to context.execution_order.
ExecutorReturns ==
  /\ pc = "execute"
  /\ _get_node_executor(node_types[current]) # "ValueError"
  /\ node_results' = DictSet(node_results, current, [main |-> "data"])
  /\ node_states' = DictSet(node_states, current, "completed")
  /\ execution_order' = Append(execution_order, current)
  /\ IF has_callback
     THEN pc' = "node_complete" /\ idx' = idx
     ELSE pc' = LoopAt(run_order, idx + 1) /\ idx' = idx + 1
  /\ UNCHANGED <<inputs, applied, status, errors, state_errors, run_order, raised,
                 events, dispatched>>

\* Mutant of ExecutorRaises: the except block records the error and does not
\* re-raise, so the driver goes on with the next node.
ExecutorRaises_Swallowed ==
  /\ pc = "execute"
  /\ errors' = DictSet(errors, current, error_msg(current))
  /\ node_states' = DictSet(node_states, current, "error")
  /\ state_errors' = DictSet(state_errors, current, error_msg(current))
  /\ pc' = LoopAt(run_order, idx + 1)
  /\ idx' = idx + 1
  /\ UNCHANGED <<inputs, applied, status, node_results, execution_order, run_order, raised,
                 events, dispatched>>

\* Mutant of ExecutorRaises: the node id is appended to execution_order on the
\* failure path too.
ExecutorRaises_Appended ==
  /\ pc = "execute"
  /\ errors' = DictSet(errors, current, error_msg(current))
  /\ node_states' = DictSet(node_states, current, "error")
  /\ state_errors' = DictSet(state_errors, current, error_msg(current))
  /\ execution_order' = Append(execution_order, current)
  /\ raised' = "NodeError"
  /\ pc' = OnException
  /\ UNCHANGED <<inputs, applied, status, node_results, run_order, idx, events, dispatched>>

\* Mutant of ExecutorRaises: the error is written to node_states only, the
\* entry of context.errors is missing.
ExecutorRaises_Unrecorded ==
  /\ pc = "execute"
  /\ node_states' = DictSet(node_states, current, "error")
  /\ state_errors' = DictSet(state_errors, current, error_msg(current))
  /\ raised' = "NodeError"
  /\ pc' = OnException
  /\ UNCHANGED <<inputs, applied, status, node_results, execution_order, errors,
                 run_order, idx, events, dispatched>>

\* The try block of execute_node raised (the executor, or _get_node_executor):
\* set_node_error, then the exception propagates.
ExecutorRaises ==
  /\ pc = "execute"
  /\ errors' = DictSet(errors, current, error_msg(current))
  /\ node_states' = DictSet(node_states, current, "error")
  /\ state_errors' = DictSet(state_errors, current, error_msg(current))
  /\ raised' = "NodeError"
  /\ pc' = OnException
  /\ UNCHANGED <<inputs, applied, status, node_results, execution_order, run_order, idx,
                 events, dispatched>>

\* await progress_callback({'type': 'node_complete', ...}); it may raise.
ProgressNodeComplete ==
  /\ pc = "node_complete"
  /\ events' = Append(events, ProgressEvent("node_complete", current))
  /\ \E ok \in BOOLEAN :
       IF ok THEN pc' = LoopAt(run_order, idx + 1) /\ idx' = idx + 1 /\ raised' = raised
       ELSE pc' = OnException /\ idx' = idx /\ raised' = "CallbackError"
  /\ UNCHANGED <<inputs, applied, context, run_order, dispatched>>

\* ExecutionContext.complete
complete(new_status) == status' = new_status

\* context.complete('completed') after the loop.
Complete ==
  /\ pc = "complete"
  /\ complete("completed")
  /\ pc' = IF has_callback THEN "workflow_complete" ELSE "returned"
  /\ UNCHANGED <<inputs, applied, node_states, node_results, execution_order, errors,
                 state_errors, run_order, idx, raised, events, dispatched>>

\* await progress_callback({'type': 'workflow_complete', ...}) inside the try.
ProgressWorkflowComplete ==
  /\ pc = "workflow_complete"
  /\ events' = Append(events, ProgressEvent("workflow_complete", ""))
  /\ \E ok \in BOOLEAN :
       IF ok THEN pc' = "returned" /\ raised' = raised
       ELSE pc' = "except" /\ raised' = "CallbackError"
  /\ UNCHANGED <<inputs, applied, context, run_order, idx, dispatched>>

\* except Exception: context.complete('error')
HandleException ==
  /\ pc = "except"
  /\ complete("error")
  /\ pc' = IF has_callback THEN "workflow_error" ELSE "returned"
  /\ UNCHANGED <<inputs, applied, node_states, node_results, execution_order, errors,
                 state_errors, run_order, idx, raised, events, dispatched>>

\* await progress_callback({'type': 'workflow_error', ...}) inside the except
\* block: an exception raised here leaves execute_workflow.
ProgressWorkflowError ==
  /\ pc = "workflow_error"
  /\ events' = Append(events, ProgressEvent("workflow_error", ""))
  /\ \E ok \in BOOLEAN :
       IF ok THEN pc' = "returned" /\ raised' = raised
       ELSE pc' = "raised" /\ raised' = "CallbackError"
  /\ UNCHANGED <<inputs, applied, context, run_order, idx, dispatched>>

Next ==
  \/ Begin
  \/ ProgressNodeStart
  \/ MarkRunning
  \/ ExecutorReturns
  \/ ExecutorRaises
  \/ ProgressNodeComplete
  \/ Complete
  \/ ProgressWorkflowComplete
  \/ HandleException
  \/ ProgressWorkflowError

Spec == Init /\ [][Next]_vars

\* Runs over typed nodes.
SpecTyped == InitTyped /\ [][Next]_vars

\* ============================================================ Python values
\* A value is a tagged tuple: None, a str (its characters in order), an int, or
\* a dict (its items in insertion order, each a <<key, value>> pair whose key
\* is a sequence of characters).
PyNone == <<"none">>
PyStr(chars) == <<"str", chars>>
PyInt(n) == <<"int", n>>
PyDict(items) == <<"dict", items>>
isinstance(v, type) == v[1] = type
Items(d) == d[2]

\* Position of key k among the items of d (0 when d has no such key).
KeyIndex(d, k) ==
  IF \E i \in 1..Len(Items(d)) : Items(d)[i][1] = k
  THEN CHOOSE i \in 1..Len(Items(d)) : Items(d)[i][1] = k
  ELSE 0
\* k in d
HasKey(d, k) == KeyIndex(d, k) > 0
\* d.get(k, default)
get(d, k, default) == IF HasKey(d, k) THEN Items(d)[KeyIndex(d, k)][2] ELSE default
\* d[k] = v: a key d has keeps its place, a new key goes last.
setitem(d, k, v) ==
  IF HasKey(d, k)
  THEN PyDict([i \in 1..Len(Items(d)) |-> IF i = KeyIndex(d, k) THEN <<k, v>> ELSE Items(d)[i]])
  ELSE PyDict(Append(Items(d), <<k, v>>))
\* d.update(e)
RECURSIVE update(_, _)
update(d, e) ==
  IF Items(e) = <<>> THEN d
  ELSE update(setitem(d, Items(e)[1][1], Items(e)[1][2]), PyDict(Tail(Items(e))))
\* bool(v)
bool(v) ==
  CASE isinstance(v, "none") -> FALSE
    [] isinstance(v, "str") -> v[2] # <<>>
    [] isinstance(v, "int") -> v[2] # 0
    [] isinstance(v, "dict") -> Items(v) # <<>>

\* The dicts of at most two items over the given keys and values.
DictsOver(keys, values) ==
  {PyDict(<<>>)}
    \cup {PyDict(<<<<k, v>>>>) : k \in keys, v \in values}
    \cup {PyDict(<<<<kv[1], v>>, <<kv[2], w>>>>) :
            kv \in {p \in keys \X keys : p[1] # p[2]}, v \in values, w \in values}
\* The dicts of exactly one item.
SingletonDicts(keys, values) == {PyDict(<<<<k, v>>>>) : k \in keys, v \in values}


\* The strings the code names, each as its characters.
lit ==
  [main |-> <<"m", "a", "i", "n">>,
   foo |-> <<"f", "o", "o">>,
   source |-> <<"s", "o", "u", "r", "c", "e">>,
   target |-> <<"t", "a", "r", "g", "e", "t">>,
   sourceHandle |-> <<"s", "o", "u", "r", "c", "e", "H", "a", "n", "d", "l", "e">>,
   targetHandle |-> <<"t", "a", "r", "g", "e", "t", "H", "a", "n", "d", "l", "e">>,
   json |-> <<"j", "s", "o", "n">>,
   out |-> <<"o", "u", "t">>,
   aux |-> <<"a", "u", "x">>,
   a |-> <<"a">>,
   b |-> <<"b">>,
   x |-> <<"x">>,
   text |-> <<"t", "e", "x", "t">>,
   message |-> <<"m", "e", "s", "s", "a", "g", "e">>,
   content |-> <<"c", "o", "n", "t", "e", "n", "t">>,
   response |-> <<"r", "e", "s", "p", "o", "n", "s", "e">>,
   output |-> <<"o", "u", "t", "p", "u", "t">>,
   title |-> <<"t", "i", "t", "l", "e">>,
   type |-> <<"t", "y", "p", "e">>,
   k |-> <<"k">>,
   work |-> <<"w", "o", "r", "k">>,
   hi |-> <<"h", "i">>,
   yo |-> <<"y", "o">>,
   cfg |-> <<"c", "f", "g">>,
   chat_response |-> <<"c", "h", "a", "t", "_", "r", "e", "s", "p", "o", "n", "s", "e">>,
   readme_viewer |-> <<"r", "e", "a", "d", "m", "e", "_", "v", "i", "e", "w", "e", "r">>,
   execution_id |-> <<"e", "x", "e", "c", "u", "t", "i", "o", "n", "_", "i", "d">>,
   workflow_id |-> <<"w", "o", "r", "k", "f", "l", "o", "w", "_", "i", "d">>,
   trigger_data |-> <<"t", "r", "i", "g", "g", "e", "r", "_", "d", "a", "t", "a">>,
   openai_api_key |-> <<"o", "p", "e", "n", "a", "i", "_", "a", "p", "i", "_", "k", "e", "y">>,
   anthropic_api_key |-> <<"a", "n", "t", "h", "r", "o", "p", "i", "c", "_", "a", "p", "i", "_", "k", "e", "y">>,
   google_api_key |-> <<"g", "o", "o", "g", "l", "e", "_", "a", "p", "i", "_", "k", "e", "y">>,
   groq_api_key |-> <<"g", "r", "o", "q", "_", "a", "p", "i", "_", "k", "e", "y">>,
   node_results |-> <<"n", "o", "d", "e", "_", "r", "e", "s", "u", "l", "t", "s">>,
   field |-> <<"f", "i", "e", "l", "d">>,
   operator |-> <<"o", "p", "e", "r", "a", "t", "o", "r">>,
   value |-> <<"v", "a", "l", "u", "e">>,
   status |-> <<"s", "t", "a", "t", "u", "s">>,
   active |-> <<"a", "c", "t", "i", "v", "e">>,
   Active |-> <<"A", "c", "t", "i", "v", "e">>,
   inactive |-> <<"i", "n", "a", "c", "t", "i", "v", "e">>,
   act |-> <<"a", "c", "t">>,
   abc |-> <<"a", "b", "c">>,
   equals |-> <<"e", "q", "u", "a", "l", "s">>,
   notEquals |-> <<"n", "o", "t", "E", "q", "u", "a", "l", "s">>,
   contains |-> <<"c", "o", "n", "t", "a", "i", "n", "s">>,
   greaterThan |-> <<"g", "r", "e", "a", "t", "e", "r", "T", "h", "a", "n">>,
   lessThan |-> <<"l", "e", "s", "s", "T", "h", "a", "n">>,
   startsWith |-> <<"s", "t", "a", "r", "t", "s", "W", "i", "t", "h">>,
   user |-> <<"u", "s", "e", "r">>,
   name |-> <<"n", "a", "m", "e">>,
   missing |-> <<"m", "i", "s", "s", "i", "n", "g">>,
   n |-> <<"n">>,
   e |-> <<"e">>,
   first |-> <<"f", "i", "r", "s", "t">>,
   Ada |-> <<"A", "d", "a">>,
   hello |-> <<"h", "e", "l", "l", "o">>,
   vars |-> <<"$", "v", "a", "r", "s">>,
   data |-> <<"d", "a", "t", "a">>,
   id |-> <<"i", "d">>,
   properties |-> <<"p", "r", "o", "p", "e", "r", "t", "i", "e", "s">>,
   execution_ |-> <<"$", "e", "x", "e", "c", "u", "t", "i", "o", "n">>,
   workflow_ |-> <<"$", "w", "o", "r", "k", "f", "l", "o", "w">>,
   mode |-> <<"m", "o", "d", "e">>,
   test |-> <<"t", "e", "s", "t">>,
   Workflow |-> <<"W", "o", "r", "k", "f", "l", "o", "w">>,
   plain |-> <<"p", "l", "a", "i", "n">>,
   w |-> <<"w">>,
   e1 |-> <<"e", "1">>,
   manual_trigger |-> <<"m", "a", "n", "u", "a", "l", "-", "t", "r", "i", "g", "g", "e", "r">>,
   ContentViewer |-> <<"C", "o", "n", "t", "e", "n", "t", " ", "V", "i", "e", "w", "e", "r">>,
   None |-> <<"N", "o", "n", "e">>,
   null |-> <<"n", "u", "l", "l">>]

\* No run is in progress: a function is applied on its own.
NoRun ==
  /\ nodes = <<>>
  /\ edges = <<>>
  /\ mode = "full"
  /\ start_node_id = ""
  /\ has_callback = FALSE
  /\ node_types = EmptyDict
  /\ status = "running"
  /\ node_states = EmptyDict
  /\ node_results = EmptyDict
  /\ execution_order = <<>>
  /\ errors = EmptyDict
  /\ state_errors = EmptyDict
  /\ pc = "idle"
  /\ run_order = <<>>
  /\ idx = 0
  /\ raised = "none"
  /\ events = <<>>
  /\ dispatched = <<>>
run == <<inputs, context, pc, run_order, idx, raised, events, dispatched>>
Pending == <<"pending">>

\* --------------------------------------------------- output normalisation
\* Mutant of normalize: the result is wrapped whatever it is.
normalize_Always(result) == PyDict(<<<<lit.main, result>>>>)

\* "Ensure result is structured JSON": execute_node after the executor
\* returned, and DynamicNodeExecutor.execute after the handler returned.
normalize(result) ==
  IF ~isinstance(result, "dict") THEN PyDict(<<<<lit.main, result>>>>)
  ELSE IF ~HasKey(result, lit.main) THEN PyDict(<<<<lit.main, result>>>>)
  ELSE result

\* What a handler or an executor may return.
ReturnScalars == {PyNone, PyStr(<<>>), PyStr(<<"x">>), PyInt(0), PyInt(1)}
ReturnValues ==
  ReturnScalars
    \cup DictsOver({lit.main, lit.foo}, ReturnScalars)
    \cup SingletonDicts({lit.main, lit.foo}, SingletonDicts({lit.main, lit.foo}, ReturnScalars))

\* A node whose executor (a built-in one, or the dynamic one around a handler)
\* is about to return some value.
InitNormalize ==
  /\ NoRun /\ NoTasks /\ NoListeners
  /\ call \in [executor : {"builtin", "dynamic"}, result : ReturnValues]
  /\ ret = Pending

\* execute_node from the executor's return to set_node_result: the dynamic
\* executor has normalised its handler's value before the engine does.
StoreResult ==
  /\ ret = Pending
  /\ LET result == IF call.executor = "dynamic" THEN normalize(call.result)
                   ELSE call.result
     IN  ret' = <<"return", normalize(result)>>
  /\ UNCHANGED <<run, call, concurrent>>

SpecNormalize == InitNormalize /\ [][StoreResult]_vars

\* -------------------------------------------------------- _get_node_inputs
\* Largest number of entries of the edge list handed to _get_node_inputs.
MaxInEdges == 2


\* The for loop over the edges: inputs and main_inputs after it.
RECURSIVE CollectLoop(_, _, _, _, _)
CollectLoop(node_id, es, results, inputs_, main_inputs) ==
  IF es = <<>> THEN [inputs |-> inputs_, main_inputs |-> main_inputs]
  ELSE
    LET edge == Head(es)
        source_id == get(edge, lit.source, PyNone)
        source_output == get(edge, lit.sourceHandle, PyStr(lit.main))
        target_input == get(edge, lit.targetHandle, PyStr(lit.main))
        source_result == get(results, source_id[2], PyNone)
        output_data ==
          IF isinstance(source_result, "dict") /\ HasKey(source_result, source_output[2])
          THEN get(source_result, source_output[2], PyNone)
          ELSE source_result
    IN  IF get(edge, lit.target, PyNone) = node_id /\ bool(source_result)
        THEN IF target_input = PyStr(lit.main)
             THEN CollectLoop(node_id, Tail(es), results,
                              setitem(inputs_, source_id[2], output_data),
                              Append(main_inputs,
                                     [source_id |-> source_id, data |-> output_data]))
             ELSE CollectLoop(node_id, Tail(es), results,
                              setitem(inputs_, target_input[2], output_data),
                              main_inputs)
        ELSE CollectLoop(node_id, Tail(es), results, inputs_, main_inputs)

\* Mutant of MergeLoop: a key the merge already has keeps its value.
RECURSIVE MergeLoop_FirstWins(_, _)
MergeLoop_FirstWins(merged_main, main_inputs) ==
  IF main_inputs = <<>> THEN merged_main
  ELSE LET data == Head(main_inputs).data
           source_id == Head(main_inputs).source_id
       IN  MergeLoop_FirstWins(
             IF isinstance(data, "dict") THEN update(data, merged_main)
             ELSE IF HasKey(merged_main, source_id[2]) THEN merged_main
             ELSE setitem(merged_main, source_id[2], data),
             Tail(main_inputs))

\* The merge of several main inputs into merged_main.
RECURSIVE MergeLoop(_, _)
MergeLoop(merged_main, main_inputs) ==
  IF main_inputs = <<>> THEN merged_main
  ELSE LET data == Head(main_inputs).data
           source_id == Head(main_inputs).source_id
       IN  MergeLoop(
             IF isinstance(data, "dict") THEN update(merged_main, data)
             ELSE setitem(merged_main, source_id[2], data),
             Tail(main_inputs))

\* Mutant of _get_node_inputs: a single main input goes through the merge too.
_get_node_inputs_AlwaysMerged(node_id, es, results) ==
  LET c == CollectLoop(node_id, es, results, PyDict(<<>>), <<>>)
      with_main ==
        IF Len(c.main_inputs) >= 1
        THEN setitem(c.inputs, lit.main, MergeLoop(PyDict(<<>>), c.main_inputs))
        ELSE c.inputs
  IN  IF HasKey(with_main, lit.main)
      THEN setitem(with_main, lit.json, get(with_main, lit.main, PyNone))
      ELSE with_main

\* WorkflowExecutionEngine._get_node_inputs
_get_node_inputs(node_id, es, results) ==
  LET c == CollectLoop(node_id, es, results, PyDict(<<>>), <<>>)
      with_main ==
        IF Len(c.main_inputs) > 1
        THEN setitem(c.inputs, lit.main, MergeLoop(PyDict(<<>>), c.main_inputs))
        ELSE IF Len(c.main_inputs) = 1
        THEN setitem(c.inputs, lit.main, c.main_inputs[1].data)
        ELSE c.inputs
  IN  IF HasKey(with_main, lit.main)
      THEN setitem(with_main, lit.json, get(with_main, lit.main, PyNone))
      ELSE with_main

\* Edges into node x from the sources a and b, with or without handles.
HandleItems(key, handles) == {<<>>} \cup {<<<<key, PyStr(h)>>>> : h \in handles}
InEdges ==
  {PyDict(<<<<lit.source, PyStr(src)>>, <<lit.target, PyStr(lit.x)>>>> \o sh \o th) :
     src \in {lit.a, lit.b},
     sh \in HandleItems(lit.sourceHandle, {lit.out}),
     th \in HandleItems(lit.targetHandle, {lit.main, lit.aux})}
\* An edge of the list that leads elsewhere.
OtherEdge == PyDict(<<<<lit.source, PyStr(lit.x)>>, <<lit.target, PyStr(lit.b)>>>>)
InEdgeLists == UNION {[1..n -> InEdges \cup {OtherEdge}] : n \in 0..MaxInEdges}

\* Payloads on a handle, and the normalised results a source may have stored
\* (no entry at all for a source that has not run).
Payloads ==
  {PyNone, PyStr(<<"s">>), PyDict(<<>>), PyDict(<<<<lit.a, PyInt(1)>>>>),
   PyDict(<<<<lit.a, PyInt(2)>>, <<lit.b, PyInt(3)>>>>)}
SourceResults ==
  {<<>>} \cup {<<PyDict(<<<<lit.main, m>>>>)>> : m \in Payloads}
         \cup {<<PyDict(<<<<lit.main, PyNone>>, <<lit.out, PyStr(<<"o">>)>>>>)>>}
StoredResults ==
  {PyDict((IF ra = <<>> THEN <<>> ELSE <<<<lit.a, ra[1]>>>>)
            \o (IF rb = <<>> THEN <<>> ELSE <<<<lit.b, rb[1]>>>>)) :
     ra \in SourceResults, rb \in SourceResults}

InitInputs ==
  /\ NoRun /\ NoTasks /\ NoListeners
  /\ call \in [node_id : {PyStr(lit.x)}, edges : InEdgeLists, node_results : StoredResults]
  /\ ret = Pending

\* inputs = self._get_node_inputs(node_id, edges, context)
GetNodeInputs ==
  /\ ret = Pending
  /\ ret' = <<"return", _get_node_inputs(call.node_id, call.edges, call.node_results)>>
  /\ UNCHANGED <<run, call, concurrent>>

SpecInputs == InitInputs /\ [][GetNodeInputs]_vars

\* ----------------------------------------------------------- str, json.dumps
\* The decimal digits of a natural number.
RECURSIVE DecStr(_)
DecStr(n) ==
  LET digits == <<"0", "1", "2", "3", "4", "5", "6", "7", "8", "9">> IN
  IF n < 10 THEN <<digits[n + 1]>>
  ELSE Append(DecStr(n \div 10), digits[(n % 10) + 1])

\* chars.strip(set): leading and trailing characters of the set removed.
RECURSIVE strip_chars(_, _)
strip_chars(chars, set) ==
  IF chars # <<>> /\ Head(chars) \in set THEN strip_chars(Tail(chars), set)
  ELSE IF chars # <<>> /\ chars[Len(chars)] \in set
  THEN strip_chars(SubSeq(chars, 1, Len(chars) - 1), set)
  ELSE chars
\* chars.strip(): leading and trailing whitespace removed.
strip(chars) == strip_chars(chars, {" ", "\t", "\n"})

\* sep.join(parts)
RECURSIVE join(_, _)
join(sep, parts) ==
  IF parts = <<>> THEN <<>>
  ELSE IF Len(parts) = 1 THEN parts[1]
  ELSE parts[1] \o sep \o join(sep, Tail(parts))

\* repr(v), for strings without quotes or escapes.
RECURSIVE repr(_)
repr(v) ==
  CASE isinstance(v, "none") -> lit.None
    [] isinstance(v, "str") -> <<"'">> \o v[2] \o <<"'">>
    [] isinstance(v, "int") -> DecStr(v[2])
    [] isinstance(v, "dict") ->
         <<"{">> \o join(<<",", " ">>,
                        [i \in 1..Len(Items(v)) |->
                           <<"'">> \o Items(v)[i][1] \o <<"'", ":", " ">> \o repr(Items(v)[i][2])])
               \o <<"}">>
\* str(v)
str(v) == IF isinstance(v, "str") THEN v[2] ELSE repr(v)

\* json.dumps(v, indent=2) at nesting depth level, for strings that need no
\* escape.
RECURSIVE json_dumps(_, _)
json_dumps(v, level) ==
  LET indent(n) == [i \in 1..(2 * n) |-> " "] IN
  CASE isinstance(v, "none") -> lit.null
    [] isinstance(v, "str") -> <<"\"">> \o v[2] \o <<"\"">>
    [] isinstance(v, "int") -> DecStr(v[2])
    [] isinstance(v, "dict") ->
         IF Items(v) = <<>> THEN <<"{", "}">>
         ELSE <<"{", "\n">>
                \o join(<<",", "\n">>,
                        [i \in 1..Len(Items(v)) |->
                           indent(level + 1) \o <<"\"">> \o Items(v)[i][1] \o <<"\"", ":", " ">>
                             \o json_dumps(Items(v)[i][2], level + 1)])
                \o <<"\n">> \o indent(level) \o <<"}">>

\* a or b
or(a, b) == IF bool(a) THEN a ELSE b
\* d.get(k, '')
get_str(d, k) == get(d, k, PyStr(<<>>))

\* ------------------------------------------------------- OutputNodeExecutor
\* BaseNodeExecutor.get_property: the node's property, the default without it.
get_property(properties, key, default) == get(properties, key, default)

\* What a handler hands back: a value returned or an exception raised.
Return(v) == <<"return", v>>
Raise(exception) == <<"raise", exception>>

\* _execute_respond_to_chat; the timestamp of the result is left out.
_execute_respond_to_chat(properties, inputs_) ==
  LET configured == get_property(properties, lit.message, PyStr(<<>>))
      input_data == get(inputs_, lit.main, PyNone)
      message ==
        IF ~bool(configured) /\ bool(input_data)
        THEN IF isinstance(input_data, "dict")
             THEN or(get_str(input_data, lit.text),
                     or(get_str(input_data, lit.message), PyStr(str(input_data))))
             ELSE PyStr(str(input_data))
        ELSE configured
  IN  IF ~isinstance(message, "str") THEN Raise("TypeError")
      ELSE Return(PyDict(<<<<lit.main,
                            PyDict(<<<<lit.response, message>>, <<lit.text, message>>,
                                     <<lit.type, PyStr(lit.chat_response)>>>>)>>>>))

\* len(v) of a str or a dict
len(v) == IF isinstance(v, "str") THEN Len(v[2]) ELSE Len(Items(v))

\* for key, value in input_data.items(): the content after the loop.
RECURSIVE NestedLoop(_, _)
NestedLoop(items, content) ==
  IF items = <<>> THEN Return(content)
  ELSE LET value == items[1][2] IN
       IF isinstance(value, "dict")
       THEN LET nested == or(get_str(value, lit.text),
                             or(get_str(value, lit.content),
                                or(get_str(value, lit.response), get_str(value, lit.message))))
            IN  IF bool(nested) THEN Return(nested) ELSE NestedLoop(Tail(items), nested)
       ELSE IF isinstance(value, "str")
       THEN IF ~(isinstance(content, "str") \/ isinstance(content, "dict"))
            THEN Raise("TypeError")
            ELSE NestedLoop(Tail(items), IF Len(value[2]) > len(content) THEN value ELSE content)
       ELSE NestedLoop(Tail(items), content)

\* _execute_readme_viewer; timestamp and formatted are left out of the result.
_execute_readme_viewer(properties, inputs_) ==
  LET configured_content == get_property(properties, lit.content, PyStr(lit.work))
      input_data == get(inputs_, lit.main, PyDict(<<>>))
      direct ==
        or(get_str(input_data, lit.text),
           or(get_str(input_data, lit.content),
              or(get_str(input_data, lit.response),
                 or(get_str(input_data, lit.message), get_str(input_data, lit.output)))))
      looped == IF bool(direct) THEN Return(direct) ELSE NestedLoop(Items(input_data), direct)
      from_input ==
        IF ~isinstance(input_data, "dict") THEN Return(PyStr(str(input_data)))
        ELSE IF looped[1] = "raise" THEN looped
        ELSE IF bool(looped[2]) THEN looped
        ELSE Return(PyStr(json_dumps(input_data, 0)))
      chosen(content) ==
        IF ~bool(content) \/ (isinstance(content, "str") /\ strip(content[2]) = <<>>)
        THEN (IF bool(configured_content) /\ strip(configured_content[2]) # <<>>
              THEN configured_content ELSE PyStr(lit.work))
        ELSE content
  IN  IF from_input[1] = "raise" THEN from_input
      ELSE Return(PyDict(<<<<lit.main,
                            PyDict(<<<<lit.title,
                                       get_property(properties, lit.title, PyStr(lit.ContentViewer))>>,
                                     <<lit.content, chosen(from_input[2])>>,
                                     <<lit.type, PyStr(lit.readme_viewer)>>>>)>>>>))

\* OutputNodeExecutor.execute
OutputNodeExecutor_execute(node_type, properties, inputs_) ==
  IF node_type = "respond-to-chat" THEN _execute_respond_to_chat(properties, inputs_)
  ELSE IF node_type = "readme-viewer" THEN _execute_readme_viewer(properties, inputs_)
  ELSE Raise("NodeExecutionError")

\* The exec_context dict execute_node builds for the executor (the values of
\* the credentials and ids play no part and are None here).
exec_context(inputs_) ==
  PyDict(<<<<lit.execution_id, PyNone>>, <<lit.workflow_id, PyNone>>,
           <<lit.trigger_data, PyNone>>, <<lit.openai_api_key, PyNone>>,
           <<lit.anthropic_api_key, PyNone>>, <<lit.google_api_key, PyNone>>,
           <<lit.groq_api_key, PyNone>>, <<lit.node_results, PyNone>>,
           <<lit.json, get(inputs_, lit.main, PyDict(<<>>))>>>>)

\* The properties of an output node, and the inputs it may be handed.
OutputProperties ==
  {PyDict(<<>>)}
    \cup SingletonDicts({lit.message, lit.content},
                        {PyStr(<<>>), PyStr(<<" ">>), PyStr(lit.cfg)})
MainInputs ==
  {PyNone, PyStr(<<>>), PyStr(lit.hi), PyInt(1)}
    \cup DictsOver({lit.text, lit.message, lit.k},
                   {PyNone, PyStr(<<>>), PyStr(lit.hi), PyStr(lit.yo)})
    \cup SingletonDicts({lit.k, lit.text},
                        SingletonDicts({lit.text, lit.message}, {PyNone, PyStr(lit.yo)}))
NodeInputs ==
  {PyDict(<<>>)} \cup {PyDict(<<<<lit.main, m>>, <<lit.json, m>>>>) : m \in MainInputs}

InitOutput ==
  /\ NoRun /\ NoTasks /\ NoListeners
  /\ call \in [node_type : OutputTypes, properties : OutputProperties, inputs : NodeInputs]
  /\ ret = Pending

\* execute_node for an output node, from the executor's call on: the result is
\* normalised and stored, and context.chat_response (None so far) is taken
\* from exec_context if the executor put a chat_response there.  ret holds the
\* outcome and context.chat_response.
ExecuteOutputNode ==
  /\ ret = Pending
  /\ LET context_ == exec_context(call.inputs)
         result == OutputNodeExecutor_execute(call.node_type, call.properties, call.inputs)
         chat_response ==
           IF result[1] = "return" /\ HasKey(context_, lit.chat_response)
           THEN get(context_, lit.chat_response, PyNone)
           ELSE PyNone
     IN  ret' = IF result[1] = "return"
                THEN <<"return", normalize(result[2]), chat_response>>
                ELSE <<"raise", result[2], chat_response>>
  /\ UNCHANGED <<run, call, concurrent>>

SpecOutput == InitOutput /\ [][ExecuteOutputNode]_vars

\* --------------------------------------------------------- DataNodeExecutor
\* chars.lower()
lower(chars) ==
  LET upper == <<"A", "B", "C", "D", "E", "F", "G", "H", "I", "J", "K", "L", "M",
                 "N", "O", "P", "Q", "R", "S", "T", "U", "V", "W", "X", "Y", "Z">>
      small == <<"a", "b", "c", "d", "e", "f", "g", "h", "i", "j", "k", "l", "m",
                 "n", "o", "p", "q", "r", "s", "t", "u", "v", "w", "x", "y", "z">>
  IN  [i \in 1..Len(chars) |->
         IF \E j \in 1..26 : upper[j] = chars[i]
         THEN small[CHOOSE j \in 1..26 : upper[j] = chars[i]]
         ELSE chars[i]]

\* needle in hay, for two strings
substring(needle, hay) ==
  \E i \in 0..(Len(hay) - Len(needle)) : SubSeq(hay, i + 1, i + Len(needle)) = needle

\* The value of a string of decimal digits.
RECURSIVE DigitsValue(_)
DigitsValue(chars) ==
  IF chars = <<>> THEN 0
  ELSE 10 * DigitsValue(SubSeq(chars, 1, Len(chars) - 1))
         + (CHOOSE d \in 0..9 : DecStr(d) = <<chars[Len(chars)]>>)

\* float(v): the number, or the exception raised.  A str is read as optional
\* whitespace, an optional sign and decimal digits; the strings of the model
\* have no fraction, exponent, underscore, inf or nan, which float also reads.
float(v) ==
  IF isinstance(v, "int") THEN Return(v[2])
  ELSE IF ~isinstance(v, "str") THEN Raise("TypeError")
  ELSE LET text == strip(v[2])
           signed == text # <<>> /\ Head(text) \in {"+", "-"}
           digits == IF signed THEN Tail(text) ELSE text
       IN  IF digits = <<>> \/ \E i \in 1..Len(digits) : \A d \in 0..9 : DecStr(d) # <<digits[i]>>
           THEN Raise("ValueError")
           ELSE Return(IF signed /\ Head(text) = "-" THEN 0 - DigitsValue(digits)
                       ELSE DigitsValue(digits))

\* Mutant of _evaluate_filter: a comparison whose operands are not numbers
\* passes the filter.
_evaluate_filter_Lax(field_value, operator, expected_value) ==
  LET field_value_str == lower(str(field_value))
      expected_value_str == lower(str(expected_value))
      numbers == float(field_value)[1] = "return" /\ float(expected_value)[1] = "return"
  IN  IF operator = PyStr(lit.equals) THEN field_value_str = expected_value_str
      ELSE IF operator = PyStr(lit.notEquals) THEN field_value_str # expected_value_str
      ELSE IF operator = PyStr(lit.contains) THEN substring(expected_value_str, field_value_str)
      ELSE IF operator = PyStr(lit.greaterThan)
      THEN (IF numbers THEN float(field_value)[2] > float(expected_value)[2] ELSE TRUE)
      ELSE IF operator = PyStr(lit.lessThan)
      THEN (IF numbers THEN float(field_value)[2] < float(expected_value)[2] ELSE TRUE)
      ELSE TRUE

\* DataNodeExecutor._evaluate_filter
_evaluate_filter(field_value, operator, expected_value) ==
  LET field_value_str == lower(str(field_value))
      expected_value_str == lower(str(expected_value))
      numbers == float(field_value)[1] = "return" /\ float(expected_value)[1] = "return"
  IN  IF operator = PyStr(lit.equals) THEN field_value_str = expected_value_str
      ELSE IF operator = PyStr(lit.notEquals) THEN field_value_str # expected_value_str
      ELSE IF operator = PyStr(lit.contains) THEN substring(expected_value_str, field_value_str)
      ELSE IF operator = PyStr(lit.greaterThan)
      THEN (IF numbers THEN float(field_value)[2] > float(expected_value)[2] ELSE FALSE)
      ELSE IF operator = PyStr(lit.lessThan)
      THEN (IF numbers THEN float(field_value)[2] < float(expected_value)[2] ELSE FALSE)
      ELSE TRUE

\* BaseNodeExecutor.validate_inputs: every required input is there.
validate_inputs(inputs_, required) == \A r \in required : HasKey(inputs_, r)

\* DataNodeExecutor._execute_filter
_execute_filter(properties, inputs_) ==
  LET input_data == get(inputs_, lit.main, PyDict(<<>>))
      field == get_property(properties, lit.field, PyStr(<<>>))
      operator == get_property(properties, lit.operator, PyStr(lit.equals))
      value == get_property(properties, lit.value, PyStr(<<>>))
  IN  IF ~validate_inputs(inputs_, {lit.main}) THEN Raise("NodeExecutionError")
      ELSE IF ~bool(field) THEN Raise("NodeExecutionError")
      ELSE IF ~isinstance(input_data, "dict") THEN Raise("AttributeError")
      ELSE IF _evaluate_filter(get(input_data, field[2], PyStr(<<>>)), operator, value)
      THEN Return(PyDict(<<<<lit.main, input_data>>>>))
      ELSE Return(PyDict(<<<<lit.main, PyNone>>>>))

\* The values of the filtered field and of the configured value, the filter's
\* properties and the inputs it may be handed.
FieldValues ==
  {PyNone, PyStr(<<>>), PyStr(lit.active), PyStr(lit.Active), PyStr(lit.inactive),
   PyStr(lit.abc), PyStr(<<"5">>), PyStr(<<"1", "0">>), PyStr(<<"-", "5">>),
   PyInt(5), PyInt(10)}
ExpectedValues ==
  {PyStr(<<>>), PyStr(lit.active), PyStr(lit.act), PyStr(<<"5">>), PyStr(<<" ", "7">>),
   PyInt(5), PyNone}
FilterProperties ==
  {PyDict(f \o o \o <<<<lit.value, v>>>>) :
     f \in {<<>>, <<<<lit.field, PyStr(lit.status)>>>>},
     o \in {<<>>} \cup {<<<<lit.operator, PyStr(op)>>>> :
                          op \in {lit.equals, lit.notEquals, lit.contains,
                                  lit.greaterThan, lit.lessThan, lit.startsWith}},
     v \in ExpectedValues}
FilterInputs ==
  {PyDict(<<>>)}
    \cup {PyDict(<<<<lit.main, m>>, <<lit.json, m>>>>) :
            m \in {PyNone, PyStr(lit.active), PyDict(<<>>), PyDict(<<<<lit.k, PyStr(lit.active)>>>>)}
                    \cup SingletonDicts({lit.status}, FieldValues)
                    \cup {PyDict(<<<<lit.k, PyInt(1)>>, <<lit.status, v>>>>) :
                            v \in {PyStr(lit.active), PyStr(lit.inactive)}}}

InitFilter ==
  /\ NoRun /\ NoTasks /\ NoListeners
  /\ call \in [properties : FilterProperties, inputs : FilterInputs]
  /\ ret = Pending

\* result = await executor.execute(inputs, exec_context) of a filter node
ExecuteFilter ==
  /\ ret = Pending
  /\ ret' = _execute_filter(call.properties, call.inputs)
  /\ UNCHANGED <<run, call, concurrent>>

SpecFilter == InitFilter /\ [][ExecuteFilter]_vars

\* ------------------------------------------------------ ExpressionEvaluator
\* chars.startswith(prefix)
startswith(chars, prefix) ==
  Len(chars) >= Len(prefix) /\ SubSeq(chars, 1, Len(prefix)) = prefix

\* re.findall(r'\$\{\{([^}]+)\}\}', chars): the text between "${{" and the next
\* "}}", for each block from left to right.
RECURSIVE findall(_)
findall(chars) ==
  IF chars = <<>> THEN <<>>
  ELSE IF startswith(chars, <<"$", "{", "{">>)
  THEN LET rest == SubSeq(chars, 4, Len(chars))
           n == IF \E i \in 1..Len(rest) : rest[i] = "}"
                THEN (CHOOSE i \in 1..Len(rest) :
                        rest[i] = "}" /\ \A j \in 1..(i - 1) : rest[j] # "}") - 1
                ELSE Len(rest)
       IN  IF n >= 1 /\ startswith(SubSeq(rest, n + 1, Len(rest)), <<"}", "}">>)
           THEN <<SubSeq(rest, 1, n)>> \o findall(SubSeq(rest, n + 3, Len(rest)))
           ELSE findall(Tail(chars))
  ELSE findall(Tail(chars))

\* chars.replace(old, new)
RECURSIVE replace(_, _, _)
replace(chars, old, new) ==
  IF chars = <<>> THEN <<>>
  ELSE IF startswith(chars, old)
  THEN new \o replace(SubSeq(chars, Len(old) + 1, Len(chars)), old, new)
  ELSE <<Head(chars)>> \o replace(Tail(chars), old, new)

\* re.sub(r'^\$?name\.?', '', path) for name = json, and r'^\$vars\.?' for name
\* = $vars (dollar_optional tells the two apart).
strip_prefix(path, name, dollar_optional) ==
  LET body == IF dollar_optional /\ startswith(path, <<"$">>) THEN Tail(path) ELSE path
  IN  IF startswith(body, name)
      THEN LET after == SubSeq(body, Len(name) + 1, Len(body))
           IN  IF startswith(after, <<".">>) THEN Tail(after) ELSE after
      ELSE path

\* re.split(r'\.|\[|\]', path) and expr.split('.'): the pieces between the
\* separators.
RECURSIVE split(_, _, _)
split(chars, separators, piece) ==
  IF chars = <<>> THEN <<piece>>
  ELSE IF Head(chars) \in separators THEN <<piece>> \o split(Tail(chars), separators, <<>>)
  ELSE split(Tail(chars), separators, Append(piece, Head(chars)))

\* The loop of _get_nested_value over the path parts (no value of the model is
\* a list).
RECURSIVE NestedValueLoop(_, _)
NestedValueLoop(current_, path_parts) ==
  IF path_parts = <<>> THEN current_
  ELSE IF path_parts[1] = <<>> THEN NestedValueLoop(current_, Tail(path_parts))
  ELSE IF isinstance(current_, "dict")
  THEN LET next == get(current_, path_parts[1], PyNone)
       IN  IF next = PyNone THEN PyNone ELSE NestedValueLoop(next, Tail(path_parts))
  ELSE PyNone

\* ExpressionEvaluator._get_nested_value
_get_nested_value(obj, path) ==
  IF path = <<>> THEN obj
  ELSE LET pieces == SelectSeq(split(path, {".", "[", "]"}, <<>>), LAMBDA piece : piece # <<>>)
           path_parts == [i \in 1..Len(pieces) |-> strip_chars(pieces[i], {"\"", "'"})]
       IN  NestedValueLoop(obj, path_parts)

\* ExpressionEvaluator._evaluate_json_path
_evaluate_json_path(path, context_) ==
  LET json_data == get(context_, lit.json, PyDict(<<>>))
      stripped == strip_prefix(path, lit.json, TRUE)
  IN  IF stripped = <<>> THEN json_data ELSE _get_nested_value(json_data, stripped)

\* ExpressionEvaluator._evaluate_vars_path
_evaluate_vars_path(path, context_) ==
  LET vars_ == get(context_, lit.vars, PyDict(<<>>))
      stripped == strip_prefix(path, lit.vars, FALSE)
  IN  IF stripped = <<>> THEN vars_ ELSE _get_nested_value(vars_, stripped)

\* ExpressionEvaluator._evaluate_path
_evaluate_path(path, context_) ==
  IF startswith(path, lit.json) \/ startswith(path, <<"$">> \o lit.json)
  THEN _evaluate_json_path(path, context_)
  ELSE IF startswith(path, lit.vars) THEN _evaluate_vars_path(path, context_)
  ELSE _get_nested_value(get(context_, lit.json, PyDict(<<>>)), path)

\* ExpressionEvaluator._get_node_output (path = <<>> stands for None)
_get_node_output(node_id, path, context_) ==
  LET node_result == get(get(context_, lit.node_results, PyDict(<<>>)), node_id, PyNone)
      data == IF isinstance(node_result, "dict") /\ HasKey(node_result, lit.main)
              THEN get(node_result, lit.main, PyNone)
              ELSE node_result
  IN  IF ~bool(node_result) THEN PyNone
      ELSE IF path # <<>> THEN _get_nested_value(data, path)
      ELSE data

\* ExpressionEvaluator._evaluate_expression, its tests in the order of the
\* source.  The JavaScript-like arithmetic of _evaluate_javascript is not modelled (no
\* expression of the model has an operator character) and shows as a value
\* tagged "javascript".
_evaluate_expression(expression, context_) ==
  LET expr == strip(expression)
  IN  IF startswith(expr, <<"$">> \o lit.json) \/ startswith(expr, lit.json)
      THEN _evaluate_json_path(expr, context_)
      ELSE IF startswith(expr, lit.vars) THEN _evaluate_vars_path(expr, context_)
      ELSE IF startswith(expr, <<"$">> \o lit.json \o <<".">>)
                /\ "." \in Range(SubSeq(expr, 7, Len(expr)))
      THEN LET parts == split(expr, {"."}, <<>>)
           IN  _get_node_output(parts[2], join(<<".">>, SubSeq(parts, 3, Len(parts))), context_)
      ELSE IF \E i \in 1..Len(expr) : expr[i] \in {"+", "-", "*", "/", "(", ")", "[", "]"}
      THEN <<"javascript", expr>>
      ELSE _evaluate_path(expr, context_)

\* json.loads(chars) for a text that starts with "{" or "[": of the texts the
\* model produces only "{}" is JSON (the str of a dict with items quotes its
\* keys with ', which JSON does not read).
json_loads(chars) ==
  IF chars = <<"{", "}">> THEN Return(PyDict(<<>>)) ELSE Raise("JSONDecodeError")

\* for match in matches: result = result.replace('${{' + match + '}}', str(evaluated))
RECURSIVE ReplaceLoop(_, _, _)
ReplaceLoop(result, matches, context_) ==
  IF matches = <<>> THEN result
  ELSE LET match == Head(matches)
           evaluated == _evaluate_expression(strip(match), context_)
       IN  ReplaceLoop(replace(result, <<"$", "{", "{">> \o match \o <<"}", "}">>, str(evaluated)),
                       Tail(matches), context_)

\* ExpressionEvaluator.evaluate
evaluate(expression, context_) ==
  IF ~bool(expression) \/ ~isinstance(expression, "str") THEN expression
  ELSE IF ~substring(<<"$", "{", "{">>, expression[2]) THEN expression
  ELSE LET matches == findall(expression[2]) IN
       IF matches = <<>> THEN expression
       ELSE LET result == ReplaceLoop(expression[2], matches, context_) IN
            IF (startswith(result, <<"{">>) \/ startswith(result, <<"[">>))
                 /\ json_loads(result)[1] = "return"
            THEN json_loads(result)[2]
            ELSE PyStr(result)

\* evaluate_expression(expression, context)
evaluate_expression(expression, context_) ==
  IF ~isinstance(expression, "str") THEN expression ELSE evaluate(expression, context_)

\* Paths of keys, the templates written around them and the contexts they are
\* evaluated in.
Paths ==
  {<<k>> : k \in {lit.user, lit.name, lit.missing, lit.n, lit.e}}
    \cup {<<lit.user, k>> : k \in {lit.name, lit.missing}}
    \cup {<<lit.user, lit.name, lit.first>>}
Block(before, path, after) ==
  <<"$", "{", "{">> \o before \o path \o after \o <<"}", "}">>
JsonTemplate(path) == Block(<<" ">>, lit.json \o <<".">> \o join(<<".">>, path), <<" ">>)
NodeTemplate(node_id, path) ==
  Block(<<" ">>, <<"$">> \o lit.json \o <<".">> \o node_id \o <<".">> \o join(<<".">>, path), <<" ">>)
Templates ==
  {PyStr(lit.hello), PyStr(Block(<<" ">>, lit.json, <<" ">>)), PyInt(1)}
    \cup {PyStr(JsonTemplate(p)) : p \in Paths}
    \cup {PyStr(Block(sp, head \o join(<<".">>, p), sp)) :
            sp \in {<<>>, <<" ">>},
            head \in {<<>>, lit.json \o <<".">>, <<"$">> \o lit.json \o <<".">>},
            p \in Paths}
    \cup {PyStr(lit.hello \o <<" ">> \o JsonTemplate(p) \o <<"!">>) : p \in Paths}
    \cup {PyStr(NodeTemplate(n, p)) : n \in {lit.a, lit.b}, p \in {<<lit.name>>, <<lit.user, lit.name>>}}
EvalContexts ==
  LET json_data ==
        {PyStr(lit.hello), PyDict(<<>>),
         PyDict(<<<<lit.name, PyStr(lit.Ada)>>>>),
         PyDict(<<<<lit.n, PyInt(42)>>, <<lit.e, PyDict(<<>>)>>>>),
         PyDict(<<<<lit.missing, PyNone>>, <<lit.user, PyStr(lit.Ada)>>>>)}
          \cup SingletonDicts({lit.user},
                 SingletonDicts({lit.name}, {PyStr(lit.Ada), PyStr(<<>>), PyNone, PyInt(7)}))
      input == {PyDict(<<>>), PyDict(<<<<lit.a, PyDict(<<<<lit.name, PyStr(lit.yo)>>>>)>>>>)}
      output == {PyDict(<<<<lit.name, PyStr(lit.Ada)>>>>),
                 PyDict(<<<<lit.user, PyDict(<<<<lit.name, PyStr(lit.Ada)>>>>)>>>>)}
      node_result == output \cup SingletonDicts({lit.main}, output) \cup {PyStr(lit.hi)}
  IN  {PyDict(<<>>)} \cup SingletonDicts({lit.json}, json_data)
        \cup {PyDict(<<<<lit.json, i>>, <<lit.node_results, r>>>>) :
                i \in input, r \in SingletonDicts({lit.a}, node_result)}

InitEvaluate ==
  /\ NoRun /\ NoTasks /\ NoListeners
  /\ call \in [expression : Templates, context : EvalContexts]
  /\ ret = Pending

\* node_properties[key] = evaluate_expression(value, eval_context)
EvaluateExpression ==
  /\ ret = Pending
  /\ ret' = Return(evaluate_expression(call.expression, call.context))
  /\ UNCHANGED <<run, call, concurrent>>

SpecEvaluate == InitEvaluate /\ [][EvaluateExpression]_vars

\* ------------------------------------- execute_node: property evaluation
\* eval_context of execute_node for a context with no stored results.
eval_context(inputs_) ==
  PyDict(<<<<lit.node_results, PyDict(<<>>)>>,
           <<lit.json, get(inputs_, lit.main, PyDict(<<>>))>>,
           <<lit.vars,
             PyDict(<<<<lit.execution_,
                        PyDict(<<<<lit.id, PyStr(lit.e1)>>, <<lit.mode, PyStr(lit.test)>>>>)>>,
                      <<lit.workflow_,
                        PyDict(<<<<lit.id, PyStr(lit.w)>>, <<lit.name, PyStr(lit.Workflow)>>>>)>>>>)>>>>)

\* for key, value in node_properties.items(): a string with "${{" is replaced
\* by what evaluate_expression returns for it.
EvaluateLoop(node_properties, context_) ==
  PyDict([i \in 1..Len(Items(node_properties)) |->
            LET key == Items(node_properties)[i][1]
                value == Items(node_properties)[i][2]
            IN  IF isinstance(value, "str") /\ substring(<<"$", "{", "{">>, value[2])
                THEN <<key, evaluate_expression(value, context_)>>
                ELSE <<key, value>>])

\* Mutant of evaluate_properties: the evaluated properties are not written back
\* to the node.
evaluate_properties_Unassigned(node, inputs_) ==
  IF ~isinstance(get(get(node, lit.data, PyNone), lit.properties, PyDict(<<>>)), "dict")
  THEN Raise("AttributeError")
  ELSE Return(node)

\* execute_node from the copy of the properties to
\* node['data']['properties'] = node_properties: the node as it is afterwards,
\* or the AttributeError of .copy() on properties that are no mapping.
evaluate_properties(node, inputs_) ==
  LET data == get(node, lit.data, PyNone)
      properties == get(data, lit.properties, PyDict(<<>>))
  IN  IF ~isinstance(properties, "dict") THEN Raise("AttributeError")
      ELSE Return(setitem(node, lit.data,
                          setitem(data, lit.properties,
                                  EvaluateLoop(properties, eval_context(inputs_)))))

\* Node definitions a caller may supply: with properties holding plain values
\* and templates, with properties None, and without properties.
NodeDefinitions ==
  LET templates == {PyStr(JsonTemplate(<<lit.name>>)), PyStr(JsonTemplate(<<lit.e>>)),
                    PyStr(<<"$", "{", "{">>)}
      messages == {<<>>} \cup {<<<<lit.message, v>>>> : v \in templates \cup {PyStr(lit.hi), PyInt(1)}}
      titles == {<<>>} \cup {<<<<lit.title, v>>>> : v \in {PyStr(lit.plain), PyStr(JsonTemplate(<<lit.name>>))}}
      properties == {<<>>, <<<<lit.properties, PyNone>>>>}
                      \cup {<<<<lit.properties, PyDict(m \o t)>>>> : m \in messages, t \in titles}
  IN  {PyDict(<<<<lit.id, PyStr(lit.x)>>,
                <<lit.data, PyDict(<<<<lit.type, PyStr(lit.manual_trigger)>>>> \o p)>>>>) :
         p \in properties}

\* The caller's list: the node that is dispatched, and one that is not.
InitProperties ==
  /\ NoRun /\ NoTasks /\ NoListeners
  /\ call \in [nodes : {<<n, o>> : n \in NodeDefinitions,
                                   o \in {d \in NodeDefinitions :
                                            get(get(d, lit.data, PyNone), lit.properties, PyNone)
                                              = PyDict(<<<<lit.title, PyStr(JsonTemplate(<<lit.name>>))>>>>)}},
               inputs : {PyDict(<<>>),
                         PyDict(<<<<lit.main, PyDict(<<<<lit.name, PyStr(lit.Ada)>>>>)>>>>),
                         PyDict(<<<<lit.main, PyDict(<<<<lit.e, PyDict(<<>>)>>>>)>>>>)}]
  /\ ret = <<"supplied", call.nodes>>

\* execute_node(nodes[0], ...) up to the executor's dispatch.
EvaluateProperties ==
  LET outcome == evaluate_properties(call.nodes[1], call.inputs) IN
  /\ ret[1] = "supplied"
  /\ ret' = IF outcome[1] = "raise" THEN <<"error", ret[2]>>
            ELSE <<"dispatched", [ret[2] EXCEPT ![1] = outcome[2]]>>
  /\ UNCHANGED <<run, call, concurrent>>

\* The executor returned: the node is completed.
DispatchedCompletes ==
  /\ ret[1] = "dispatched"
  /\ ret' = <<"completed", ret[2]>>
  /\ UNCHANGED <<run, call, concurrent>>

\* The executor raised: the node has failed.
DispatchedFails ==
  /\ ret[1] = "dispatched"
  /\ ret' = <<"error", ret[2]>>
  /\ UNCHANGED <<run, call, concurrent>>

SpecProperties ==
  InitProperties /\ [][EvaluateProperties \/ DispatchedCompletes \/ DispatchedFails]_vars

\* ------------------------------------------- concurrent runs on one engine
\* Two runs of execute_workflow on the same engine, without progress callback:
\* asyncio runs one of them at a time and may switch at an await.
Runs == {1, 2}
TaskNodeLists == {<<"a">>, <<"a", "b">>}

\* ExecutionContext.__init__; NoContext stands for None, where no Context is.
NewContext ==
  [status |-> "running", node_states |-> EmptyDict, node_results |-> EmptyDict,
   execution_order |-> <<>>, errors |-> EmptyDict]
NoContext == [NewContext EXCEPT !.status = "none"]

\* Mutant of registry_key: the registry is keyed by the workflow id, which the
\* two runs share.
registry_key_Workflow(r) == "w"

\* The key of self.active_executions[execution_id] = context
registry_key(r) == tasks[r].execution_id

InitTasks ==
  /\ NoRun /\ NoListeners
  /\ call = "none" /\ ret = "none"
  /\ active_executions = EmptyDict
  /\ tasks \in [Runs -> [execution_id : {"e1", "e2"}, nodes : TaskNodeLists,
                         pc : {"start"}, idx : {1}, context : {NoContext}]]

\* execute_workflow up to the node loop: the Context is created and registered.
TaskBegin(r) ==
  /\ tasks[r].pc = "start"
  /\ tasks' = [tasks EXCEPT ![r].context = NewContext, ![r].pc = "dispatch"]
  /\ active_executions' = DictSet(active_executions, registry_key(r), r)
  /\ UNCHANGED <<run, call, ret, webhooks>>

\* execute_node: context.set_node_state(node_id, 'running'), then the executor
\* is awaited.
TaskMarkRunning(r) ==
  LET node_id == tasks[r].nodes[tasks[r].idx] IN
  /\ tasks[r].pc = "dispatch"
  /\ tasks' = [tasks EXCEPT ![r].context.node_states = DictSet(@, node_id, "running"),
                            ![r].pc = "execute"]
  /\ UNCHANGED <<run, call, ret, active_executions, webhooks>>

\* The executor returned: result stored, node completed; after the last node
\* context.complete('completed') and return context.
TaskExecutorReturns(r) ==
  LET node_id == tasks[r].nodes[tasks[r].idx]
      last == tasks[r].idx = Len(tasks[r].nodes)
  IN
  /\ tasks[r].pc = "execute"
  /\ tasks' = [tasks EXCEPT
                 ![r].context.node_results = DictSet(@, node_id, [main |-> "data"]),
                 ![r].context.node_states = DictSet(@, node_id, "completed"),
                 ![r].context.execution_order = Append(@, node_id),
                 ![r].context.status = IF last THEN "completed" ELSE @,
                 ![r].idx = @ + 1,
                 ![r].pc = IF last THEN "returned" ELSE "dispatch"]
  /\ UNCHANGED <<run, call, ret, active_executions, webhooks>>

\* The executor raised: the error is recorded and re-raised, execute_workflow
\* catches it, context.complete('error') and return context.
TaskExecutorRaises(r) ==
  LET node_id == tasks[r].nodes[tasks[r].idx] IN
  /\ tasks[r].pc = "execute"
  /\ tasks' = [tasks EXCEPT
                 ![r].context.errors = DictSet(@, node_id, "Node execution failed"),
                 ![r].context.node_states = DictSet(@, node_id, "error"),
                 ![r].context.status = "error",
                 ![r].pc = "returned"]
  /\ UNCHANGED <<run, call, ret, active_executions, webhooks>>

NextTasks ==
  \E r \in Runs :
    \/ TaskBegin(r)
    \/ TaskMarkRunning(r)
    \/ TaskExecutorReturns(r)
    \/ TaskExecutorRaises(r)

SpecTasks == InitTasks /\ [][NextTasks]_vars

\* WorkflowExecutionEngine.get_execution
get_execution(execution_id) ==
  IF execution_id \in DOMAIN active_executions
  THEN tasks[active_executions[execution_id]].context
  ELSE NoContext

\* --------------------------------------------------------- webhook_listener
\* One listener "L" of user 1, and three threads that each make one call into
\* the module: pause, resume, stop or delete by the owner or by user 2, or the
\* part of trigger_webhook that tests should_process_request and then calls
\* record_webhook_request.  A thread takes the steps between its lock
\* operations atomically.
Threads == {1, 2, 3}
StatusFns == {"pause_listener", "resume_listener", "stop_listener"}
ListenerCalls ==
  [fn : StatusFns \cup {"delete_listener"}, user_id : {1, 2}]
    \cup [fn : {"should_process_request"}, user_id : {0}]
ListenerEvent(type, status_, request_id) ==
  [type |-> type, status |-> status_, request_id |-> request_id]

\* The event of the request thread t carries (its request id stands for the
\* request's method, path, headers and body).
WebhookRequest(t) == ListenerEvent("webhook_request", "", threads[t].event.request_id)

\* Mutant of lock_free: listener_lock is re-entrant (an RLock).
lock_free_Reentrant(t) == listener_lock \in {0, t}

\* listener_lock = Lock(): acquire goes through only while no thread holds the
\* lock, the caller itself included.
lock_free(t) == listener_lock = 0

\* Mutant of is_owner: the user id is not compared.
is_owner_Anyone(listener, user_id) == TRUE

\* if listener['user_id'] != user_id: return False
is_owner(listener, user_id) == listener.user_id = user_id

\* The largest number of events a listener keeps.
KeptEvents == 100

\* Mutant of record_event: the history keeps its first entries, not its last.
record_event_KeepFirst(listener, event) ==
  LET appended == Append(listener.events, event) IN
  [listener EXCEPT
     !.events = IF Len(appended) > KeptEvents THEN SubSeq(appended, 1, KeptEvents)
                ELSE appended,
     !.request_count = @ + 1]

\* record_webhook_request on the listener it found: the event is appended, the
\* last 100 events kept, the request counted.
record_event(listener, event) ==
  LET appended == Append(listener.events, event) IN
  [listener EXCEPT
     !.events = IF Len(appended) > KeptEvents
                THEN SubSeq(appended, Len(appended) - KeptEvents + 1, Len(appended))
                ELSE appended,
     !.request_count = @ + 1]

\* create_listener has run once, and SSE streams have registered connections
\* (one of them may be closed already); three calls are about to be made.
InitListener ==
  /\ NoRun /\ NoTasks
  /\ call = "none" /\ ret = "none"
  /\ active_listeners =
       [l \in {"L"} |-> [user_id |-> 1, status |-> "running", events |-> <<>>,
                         request_count |-> 0]]
  /\ listener_sse_connections \in
       [{"L"} -> {<<>>, <<[queue |-> <<>>, closed |-> FALSE]>>,
                  <<[queue |-> <<>>, closed |-> FALSE], [queue |-> <<>>, closed |-> TRUE]>>}]
  /\ listener_lock = 0
  /\ threads \in [Threads -> [fn : {c.fn : c \in ListenerCalls}, user_id : {0, 1, 2},
                              pc : {"call"}, result : {"none"},
                              event : {ListenerEvent("none", "", t) : t \in Threads}]]
  /\ \A t \in Threads :
       /\ [fn |-> threads[t].fn, user_id |-> threads[t].user_id] \in ListenerCalls
       /\ threads[t].event.request_id = t

\* What a step of a thread leaves as it is.
elsewhere == <<run, engine, call, ret>>
Returns(t, result) == [threads EXCEPT ![t].pc = "done", ![t].result = result]

\* with listener_lock: on entering one of the functions.
Acquire(t) ==
  /\ threads[t].pc = "call"
  /\ lock_free(t)
  /\ listener_lock' = t
  /\ threads' = [threads EXCEPT ![t].pc = "locked"]
  /\ UNCHANGED <<elsewhere, active_listeners, listener_sse_connections>>

\* The body of pause_listener, resume_listener (from, to as for pause) and
\* stop_listener (from any status) under the lock, up to the return or to the
\* call of broadcast_listener_event, which is made with the lock held.
SetStatus(t, from, to) ==
  /\ threads[t].pc = "locked"
  /\ IF "L" \notin DOMAIN active_listeners
          \/ ~is_owner(active_listeners["L"], threads[t].user_id)
          \/ active_listeners["L"].status \notin from
     THEN /\ threads' = Returns(t, "False")
          /\ listener_lock' = 0
          /\ UNCHANGED active_listeners
     ELSE /\ active_listeners' = [active_listeners EXCEPT !["L"].status = to]
          /\ threads' = [threads EXCEPT ![t].pc = "broadcast",
                                        ![t].event = ListenerEvent("status_changed", to, t)]
          /\ UNCHANGED listener_lock
  /\ UNCHANGED <<elsewhere, listener_sse_connections>>

pause_listener(t) ==
  threads[t].fn = "pause_listener" /\ SetStatus(t, {"running"}, "paused")

resume_listener(t) ==
  threads[t].fn = "resume_listener" /\ SetStatus(t, {"paused"}, "running")

stop_listener(t) ==
  threads[t].fn = "stop_listener" /\ SetStatus(t, {"running", "paused", "stopped"}, "stopped")

delete_listener(t) ==
  /\ threads[t].fn = "delete_listener" /\ threads[t].pc = "locked"
  /\ IF "L" \notin DOMAIN active_listeners
          \/ ~is_owner(active_listeners["L"], threads[t].user_id)
     THEN /\ threads' = Returns(t, "False")
          /\ UNCHANGED <<active_listeners, listener_sse_connections>>
     ELSE /\ active_listeners' = EmptyDict
          /\ listener_sse_connections' = EmptyDict
          /\ threads' = Returns(t, "True")
  /\ listener_lock' = 0
  /\ UNCHANGED elsewhere

\* trigger_webhook: if should_process_request(listener_id): record_webhook_request(...)
should_process_request(t) ==
  /\ threads[t].fn = "should_process_request" /\ threads[t].pc = "locked"
  /\ IF "L" \in DOMAIN active_listeners /\ active_listeners["L"].status = "running"
     THEN threads' = [threads EXCEPT ![t].fn = "record_webhook_request", ![t].pc = "call"]
     ELSE threads' = Returns(t, "skipped")
  /\ listener_lock' = 0
  /\ UNCHANGED <<elsewhere, active_listeners, listener_sse_connections>>

\* record_webhook_request under the lock; the broadcast is called after the
\* lock is released.
record_webhook_request(t) ==
  /\ threads[t].fn = "record_webhook_request" /\ threads[t].pc = "locked"
  /\ IF "L" \notin DOMAIN active_listeners
     THEN /\ threads' = Returns(t, "None")
          /\ UNCHANGED active_listeners
     ELSE /\ active_listeners' =
               [active_listeners EXCEPT
                  !["L"] = record_event(@, WebhookRequest(t))]
          /\ threads' = [threads EXCEPT ![t].pc = "broadcast",
                                        ![t].event = WebhookRequest(t)]
  /\ listener_lock' = 0
  /\ UNCHANGED <<elsewhere, listener_sse_connections>>

\* broadcast_listener_event: the test for the listener id, made without the
\* lock; with listener_lock; and under the lock the closed connections are
\* dropped and the event is put on the queue of each one left (KeyError if the
\* listener was deleted since the test).  On leaving, the lock stays with a
\* caller that held it before.
broadcast_listener_event(t) ==
  LET kept == IF threads[t].fn \in StatusFns THEN t ELSE 0 IN
  /\ \/ /\ threads[t].pc = "broadcast"
        /\ threads' = [threads EXCEPT ![t].pc =
                         IF "L" \in DOMAIN listener_sse_connections
                         THEN "broadcast_call" ELSE "after_broadcast"]
        /\ UNCHANGED <<listener_lock, listener_sse_connections>>
     \/ /\ threads[t].pc = "broadcast_call"
        /\ lock_free(t)
        /\ listener_lock' = t
        /\ threads' = [threads EXCEPT ![t].pc = "broadcast_locked"]
        /\ UNCHANGED listener_sse_connections
     \/ /\ threads[t].pc = "broadcast_locked"
        /\ listener_lock' = kept
        /\ IF "L" \notin DOMAIN listener_sse_connections
           THEN /\ threads' = Returns(t, "KeyError")
                /\ UNCHANGED listener_sse_connections
           ELSE /\ listener_sse_connections' =
                     [listener_sse_connections EXCEPT !["L"] =
                        LET open == SelectSeq(@, LAMBDA conn : ~conn.closed)
                        IN  [i \in 1..Len(open) |->
                               [open[i] EXCEPT !.queue = Append(@, threads[t].event)]]]
                /\ threads' = [threads EXCEPT ![t].pc = "after_broadcast"]
  /\ UNCHANGED <<elsewhere, active_listeners>>

\* After the broadcast: return True out of the with block of pause, resume and
\* stop; the end of record_webhook_request.
AfterBroadcast(t) ==
  /\ threads[t].pc = "after_broadcast"
  /\ IF threads[t].fn \in StatusFns
     THEN threads' = Returns(t, "True") /\ listener_lock' = 0
     ELSE threads' = Returns(t, "None") /\ UNCHANGED listener_lock
  /\ UNCHANGED <<elsewhere, active_listeners, listener_sse_connections>>

Step(t) ==
  \/ Acquire(t)
  \/ pause_listener(t)
  \/ resume_listener(t)
  \/ stop_listener(t)
  \/ delete_listener(t)
  \/ should_process_request(t)
  \/ record_webhook_request(t)
  \/ broadcast_listener_event(t)
  \/ AfterBroadcast(t)

NextListener == \E t \in Threads : Step(t)

SpecListener == InitListener /\ [][NextListener]_vars

\* Every thread that can take a step eventually takes one.
SpecListenerFair == SpecListener /\ \A t \in Threads : WF_vars(Step(t))

\* ------------------------------------------- a sequence of recorded requests
\* record_webhook_request called again and again by one thread on the running
\* listener, the other threads having returned.
MaxRequests == 102

InitRecord ==
  /\ NoRun /\ NoTasks
  /\ call = "none" /\ ret = "none"
  /\ active_listeners =
       [l \in {"L"} |-> [user_id |-> 1, status |-> "running", events |-> <<>>,
                         request_count |-> 0]]
  /\ listener_sse_connections \in
       [{"L"} -> {<<>>, <<[queue |-> <<>>, closed |-> FALSE]>>}]
  /\ listener_lock = 0
  /\ threads =
       [t \in Threads |->
          IF t = 1
          THEN [fn |-> "record_webhook_request", user_id |-> 0, pc |-> "call",
                result |-> "none", event |-> ListenerEvent("none", "", 1)]
          ELSE [fn |-> "delete_listener", user_id |-> 2, pc |-> "done",
                result |-> "False", event |-> ListenerEvent("none", "", t)]]

\* The next call of record_webhook_request, with the next request.
NextRequest(t) ==
  /\ threads[t].fn = "record_webhook_request" /\ threads[t].pc = "done"
  /\ threads[t].event.request_id < MaxRequests
  /\ threads' = [threads EXCEPT
                   ![t].pc = "call", ![t].result = "none",
                   ![t].event = ListenerEvent("none", "", threads[t].event.request_id + 1)]
  /\ UNCHANGED <<elsewhere, active_listeners, listener_sse_connections, listener_lock>>

NextRecord ==
  \E t \in Threads :
    \/ Acquire(t)
    \/ record_webhook_request(t)
    \/ broadcast_listener_event(t)
    \/ AfterBroadcast(t)
    \/ NextRequest(t)

SpecRecord == InitRecord /\ [][NextRecord]_vars

\* ============================================================ the claims
\* Vocabulary of the claims, stated on the caller's graph and independent of
\* the engine's own traversals.
NodeIds == Range(nodes)
UniqueIds == Cardinality(NodeIds) = Len(nodes)
EdgesNameNodes ==
  \A i \in 1..Len(edges) : edges[i].source \in NodeIds /\ edges[i].target \in NodeIds
EdgeRel == {<<edges[i].source, edges[i].target>> : i \in 1..Len(edges)}

\* Transitive closure of a relation, as a fixpoint of composition.
RECURSIVE Closure(_)
Closure(R) ==
  LET R2 == R \cup {<<p[1], q[2]>> : <<p, q>> \in {<<p, q>> \in R \X R : p[2] = q[1]}}
  IN  IF R2 = R THEN R ELSE Closure(R2)

Reach == Closure(EdgeRel)
HasCycle == \E x \in Ids : <<x, x>> \in Reach
Upstream(t) == LET reach == Reach IN {x \in Ids : <<x, t>> \in reach}
Downstream(t) == LET reach == Reach IN {x \in Ids : <<t, x>> \in reach}

NoRepeat(s) == \A i, j \in 1..Len(s) : s[i] = s[j] => i = j
Before(s, x, y) == IndexOf(s, x) > 0 /\ IndexOf(s, y) > 0 /\ IndexOf(s, x) < IndexOf(s, y)
Finished == pc \in {"returned", "raised"}
NoExceptionRaised == raised = "none"
StatusOf(n) == IF n \in DOMAIN node_states THEN node_states[n] ELSE "absent"
TerminalTypes == {"workflow_complete", "workflow_error"}
TerminalEvents == {i \in 1..Len(events) : events[i].type \in TerminalTypes}
DispatchPcs == {"node_start", "dispatch", "execute", "node_complete"}

\* C1: in a full run over an acyclic graph of distinct nodes whose edges all
\* name nodes, no node is ever dispatched twice and ExecutionOrder always has
\* each edge's source before its target; and when the run has returned with
\* no node having failed (and no other exception having been raised), every
\* node was dispatched exactly once and is in ExecutionOrder.
C1_TopologicalSoundness ==
  (mode = "full" /\ UniqueIds /\ EdgesNameNodes /\ ~HasCycle) =>
    /\ NoRepeat(dispatched)
    /\ \A i \in 1..Len(edges) :
         edges[i].target \in Range(execution_order)
           => Before(execution_order, edges[i].source, edges[i].target)
    /\ (pc = "returned" /\ NoExceptionRaised) =>
         /\ Range(dispatched) = NodeIds
         /\ Len(dispatched) = Len(nodes)
         /\ execution_order = dispatched

\* C1 witness: a finished full run over three nodes chained by two edges, one of
\* them from a node listed later to a node listed earlier.
C1_Witness ==
  /\ mode = "full" /\ UniqueIds /\ EdgesNameNodes /\ ~HasCycle
  /\ pc = "returned" /\ NoExceptionRaised
  /\ Len(execution_order) = 3
  /\ Len(edges) = 2 /\ edges[1].target = edges[2].source
  /\ \E i \in 1..Len(edges) : IndexOf(nodes, edges[i].source) > IndexOf(nodes, edges[i].target)

\* C2: a full run over a graph with a directed cycle never dispatches a node:
\* no node is marked running, NodeStates, NodeResults and ExecutionOrder stay
\* empty, and the run ends with status error.
C2_CycleFailsBeforeDispatch ==
  (mode = "full" /\ HasCycle) =>
    /\ pc \notin DispatchPcs \cup {"complete", "workflow_complete"}
    /\ dispatched = <<>>
    /\ DOMAIN node_states = {}
    /\ DOMAIN node_results = {}
    /\ execution_order = <<>>
    /\ \A i \in 1..Len(events) : events[i].type = "workflow_error"
    /\ Finished => status = "error"

\* C2 witness: the run over a -> b -> a, both nodes listed, has returned.
C2_Witness ==
  /\ mode = "full" /\ UniqueIds /\ EdgesNameNodes
  /\ Len(edges) = 2 /\ edges[1].source # edges[1].target
  /\ edges[2].source = edges[1].target /\ edges[2].target = edges[1].source
  /\ pc = "returned" /\ status = "error" /\ raised = "ValueError"

\* C3: once a node B has failed, B has status error, every node dispatched
\* before B is completed, B is the last node dispatched, no node after B in
\* the computed order has a NodeStates entry or is in ExecutionOrder, and a
\* returned Context has status error.
C3_ErrorIsolation ==
  \A b \in DOMAIN node_states : node_states[b] = "error" =>
    /\ pc \notin DispatchPcs \cup {"complete", "workflow_complete"}
    /\ pc = "returned" => status = "error"
    /\ dispatched # <<>> /\ dispatched[Len(dispatched)] = b
    /\ \A j \in 1..(Len(dispatched) - 1) : StatusOf(dispatched[j]) = "completed"
    /\ b \notin Range(execution_order)
    /\ \A k \in 1..Len(run_order) :
         k > IndexOf(run_order, b) =>
           /\ run_order[k] \notin DOMAIN node_states
           /\ run_order[k] \notin DOMAIN node_results
           /\ run_order[k] \notin Range(execution_order)
           /\ run_order[k] \notin Range(dispatched)

\* C3 witness: a returned run of three nodes whose second node failed.
C3_Witness ==
  /\ pc = "returned"
  /\ Len(run_order) = 3
  /\ StatusOf(run_order[1]) = "completed"
  /\ StatusOf(run_order[2]) = "error"
  /\ StatusOf(run_order[3]) = "absent"
  /\ <<run_order[1], run_order[2]>> \in EdgeRel /\ <<run_order[2], run_order[3]>> \in EdgeRel

\* The set a partial run on t is to dispatch.
PartialScope ==
  {start_node_id} \cup Upstream(start_node_id)
    \cup (IF mode = "partial_downstream" THEN Downstream(start_node_id) ELSE {})

\* C4: in a partial run targeting a node t, no node outside {t} + upstream(t)
\* (+ downstream(t) when downstream inclusion is requested) ever gets a
\* NodeStates or NodeResults entry or is dispatched, the nodes are dispatched
\* in an order that respects the edges among them, and a run that got through
\* without an exception has dispatched exactly that set, each node once.
C4_PartialRunScope ==
  (mode # "full" /\ start_node_id \in NodeIds) =>
    LET scope == PartialScope IN
    /\ DOMAIN node_states \subseteq scope
    /\ DOMAIN node_results \subseteq scope
    /\ Range(dispatched) \subseteq scope
    /\ NoRepeat(dispatched)
    /\ \A i \in 1..Len(edges) :
         (edges[i].target \in Range(dispatched) /\ edges[i].source \in scope)
           => Before(dispatched, edges[i].source, edges[i].target)
    /\ (pc = "returned" /\ NoExceptionRaised) =>
         /\ Range(dispatched) = scope
         /\ execution_order = dispatched

\* C4 witness: a -> b -> c with target b, no downstream inclusion: the run has
\* returned having dispatched a then b, and c was never touched.
C4_Witness ==
  /\ mode = "partial" /\ pc = "returned" /\ NoExceptionRaised
  /\ Upstream(start_node_id) # {}
  /\ Downstream(start_node_id) \cap NodeIds # {}
  /\ Len(dispatched) = 2 /\ dispatched[2] = start_node_id
  /\ NodeIds \ DOMAIN node_states # {}

\* C5: execute_workflow lets no exception escape and returns a Context whose
\* status is completed or error, never running.
C5_NoExceptionEscapes ==
  Wrapped =>
    /\ pc # "raised"
    /\ pc = "returned" => status \in {"completed", "error"}

\* C6: with a progress callback, a returned run has emitted exactly one
\* terminal event, it is the last event, and it is workflow_complete exactly
\* when the returned status is completed.
C6_OneTerminalEvent ==
  (Wrapped /\ has_callback /\ pc = "returned") =>
    /\ Cardinality(TerminalEvents) = 1
    /\ events # <<>> /\ events[Len(events)].type \in TerminalTypes
    /\ (events[Len(events)].type = "workflow_complete") <=> (status = "completed")

\* C7: the status of a run of execute_workflow changes only from running, to
\* completed or error, and a status completed or error never changes again;
\* a returned run has left running.
C7_StatusChangesOnce ==
  /\ [](Wrapped /\ pc = "returned" => status # "running")
  /\ [][/\ status # "running" => status' = status
        /\ status' # status => status' \in {"completed", "error"}]_vars

\* C8: a node's NodeStates entry is never removed, a node that is completed or
\* error keeps that status, and a node becomes completed or error only from
\* running.
C8_NodeStatusForward ==
  [][\A n \in Ids :
       LET old == StatusOf(n)
           new == IF n \in DOMAIN node_states' THEN node_states'[n] ELSE "absent"
       IN  /\ old # "absent" => new # "absent"
           /\ old \in {"completed", "error"} => new = old
           /\ (new \in {"completed", "error"} /\ new # old) => old = "running"
           /\ (new = "running" /\ new # old) => old = "absent"]_vars

\* C8 witness: one node has completed and a later one has failed.
C8_Witness ==
  \E n, m \in Ids : StatusOf(n) = "completed" /\ StatusOf(m) = "error"

\* C9: ExecutionOrder never holds an id twice, and every id in it was
\* dispatched, has status completed and has a result in NodeResults.
C9_ExecutionOrderSound ==
  /\ NoRepeat(execution_order)
  /\ \A n \in Range(execution_order) :
       /\ n \in Range(dispatched)
       /\ StatusOf(n) = "completed"
       /\ n \in DOMAIN node_results

\* C9 witness: two nodes are in ExecutionOrder and a third has failed.
C9_Witness ==
  /\ Len(execution_order) = 2
  /\ \E n \in Ids : StatusOf(n) = "error"

\* C10: in every run mode, over a graph of distinct nodes whose edges all name
\* nodes, while a node is running every direct source of it in the edge list
\* has status completed and a result in NodeResults.
C10_SourcesCompletedFirst ==
  (UniqueIds /\ EdgesNameNodes /\ pc = "execute") =>
    \A i \in 1..Len(edges) :
      edges[i].target = current =>
        /\ StatusOf(edges[i].source) = "completed"
        /\ edges[i].source \in DOMAIN node_results

\* The nodes whose NodeStates entry says running.
RunningNodes == {n \in DOMAIN node_states : node_states[n] = "running"}

\* C11: at most one node has status running at any time, and the event that
\* follows node_start(n) is node_complete(n) or workflow_error (so no other
\* node's node_start comes in between).
C11_SequentialDispatch ==
  /\ Cardinality(RunningNodes) <= 1
  /\ \A i \in 1..(Len(events) - 1) :
       events[i].type = "node_start" =>
         \/ events[i + 1] = ProgressEvent("node_complete", events[i].node_id)
         \/ events[i + 1].type = "workflow_error"

\* C11 witness: a node started and completed, the next one started and failed,
\* and the run reported workflow_error.
C11_Witness ==
  /\ Len(events) = 4
  /\ events[1].type = "node_start" /\ events[2].type = "node_complete"
  /\ events[3].type = "node_start" /\ events[3].node_id # events[1].node_id
  /\ events[4].type = "workflow_error"
  /\ StatusOf(events[3].node_id) = "error"

\* C12: a node id has an entry in Errors exactly when its NodeStates entry has
\* status error, the entry of Errors and the error field of the NodeStates
\* entry hold the same text, and once execute_node has raised for a node (the
\* exception is with the driver) both are set for that node.
C12_ErrorsMatchNodeStates ==
  /\ \A n \in Ids : (n \in DOMAIN errors) <=> (StatusOf(n) = "error")
  /\ DOMAIN state_errors = DOMAIN errors
  /\ \A n \in DOMAIN errors : state_errors[n] = errors[n]
  /\ raised = "NodeError" =>
       /\ dispatched # <<>>
       /\ dispatched[Len(dispatched)] \in DOMAIN errors
       /\ StatusOf(dispatched[Len(dispatched)]) = "error"

\* C12 witness: execute_node has raised for the second node of a run and the
\* exception has reached the driver's except block, which has not yet acted.
C12_Witness ==
  /\ pc = "except" /\ raised = "NodeError" /\ status = "running"
  /\ Len(dispatched) = 2
  /\ dispatched[2] \in DOMAIN errors
  /\ dispatched[1] \notin DOMAIN errors

\* The nodes whose type is in neither the dynamic registry nor the table.
UnknownTyped ==
  {n \in NodeIds : node_types[n] \notin node_registry
                     \cup TriggerTypes \cup AITypes \cup ChatModelTypes \cup MemoryTypes
                     \cup ToolTypes \cup FlowTypes \cup DataTypes
                     \cup ActionTypes \cup OutputTypes}
UnknownTypeText(n) == "Unknown node type: " \o node_types[n]

\* C13: a node of unknown type never completes and never gets a result; once
\* it has been tried (it is no longer running) it has status error and an
\* Errors entry saying unknown node type, no later node is dispatched, and a
\* returned run has status error.
C13_UnknownNodeTypeFails ==
  \A n \in UnknownTyped :
    /\ StatusOf(n) \in {"absent", "running", "error"}
    /\ n \notin DOMAIN node_results
    /\ n \notin Range(execution_order)
    /\ (n \in Range(dispatched) /\ StatusOf(n) # "running") =>
         /\ StatusOf(n) = "error"
         /\ n \in DOMAIN errors /\ errors[n] = UnknownTypeText(n)
         /\ dispatched[Len(dispatched)] = n
         /\ pc \notin DispatchPcs \cup {"complete", "workflow_complete"}
         /\ pc = "returned" => status = "error"

\* C13 witness: a -> b -> c where b has a type nobody knows: the run returned
\* with a completed, b failed and c never dispatched.
C13_Witness ==
  /\ Len(nodes) = 3 /\ pc = "returned"
  /\ nodes[2] \in UnknownTyped /\ nodes[1] \notin UnknownTyped
  /\ StatusOf(nodes[1]) = "completed"
  /\ StatusOf(nodes[2]) = "error"
  /\ StatusOf(nodes[3]) = "absent"
  /\ status = "error"

\* The types the Data executor implements (DataNodeExecutor.execute's handlers).
DataExecutorTypes == {"filter", "edit-fields", "code", "text-transform", "notes"}

\* C14: a node of type filter, edit-fields, code, text-transform or notes that
\* is not in the dynamic registry is handed to the Data executor when it is
\* dispatched, and is never failed with an unknown-node-type error.
C14_DataTypesDispatched ==
  \A n \in NodeIds :
    (node_types[n] \in DataExecutorTypes \ node_registry) =>
      /\ (pc = "execute" /\ current = n) =>
           _get_node_executor(node_types[n]) = "DataNodeExecutor"
      /\ n \in DOMAIN errors => errors[n] # UnknownTypeText(n)

\* C16: a value that is no mapping v is stored as {main: v}, a mapping without
\* main as {main: that mapping}, a mapping with main as it is; normalising
\* twice gives what normalising once gives; and what is stored in NodeResults
\* is a mapping with the key main.
C16_NormalizeIdempotent ==
  LET v == call.result
      once == normalize(v)
  IN  /\ ~isinstance(v, "dict") => once = PyDict(<<<<lit.main, v>>>>)
      /\ (isinstance(v, "dict") /\ ~HasKey(v, lit.main)) => once = PyDict(<<<<lit.main, v>>>>)
      /\ (isinstance(v, "dict") /\ HasKey(v, lit.main)) => once = v
      /\ normalize(once) = once
      /\ ret # Pending =>
           /\ ret[2] = once
           /\ isinstance(ret[2], "dict") /\ HasKey(ret[2], lit.main)

\* C16 witness: a dynamic node's handler returned {foo: "x"}, and
\* {main: {foo: "x"}} was stored.
C16_Witness ==
  /\ call.executor = "dynamic"
  /\ call.result = PyDict(<<<<lit.foo, PyStr(<<"x">>)>>>>)
  /\ ret = <<"return", PyDict(<<<<lit.main, PyDict(<<<<lit.foo, PyStr(<<"x">>)>>>>)>>>>)>>

\* The edges of the call that deliver a payload to the main handle of the
\* node, and the payload each delivers: the source's stored result at the
\* edge's source handle, the whole result if it has no such handle.
HandleOf(e, key) == IF HasKey(e, key) THEN get(e, key, PyNone) ELSE PyStr(lit.main)
MainDeliveries ==
  {i \in 1..Len(call.edges) :
     /\ get(call.edges[i], lit.target, PyNone) = call.node_id
     /\ HandleOf(call.edges[i], lit.targetHandle) = PyStr(lit.main)
     /\ HasKey(call.node_results, get(call.edges[i], lit.source, PyNone)[2])}
SourceOf(i) == get(call.edges[i], lit.source, PyNone)[2]
PayloadOf(i) ==
  LET r == get(call.node_results, SourceOf(i), PyNone)
      h == HandleOf(call.edges[i], lit.sourceHandle)[2]
  IN  IF HasKey(r, h) THEN get(r, h, PyNone) ELSE r
\* Edge i gives the merge a value for key k.
Defines(i, k) ==
  IF isinstance(PayloadOf(i), "dict") THEN HasKey(PayloadOf(i), k) ELSE SourceOf(i) = k
ValueFor(i, k) ==
  IF isinstance(PayloadOf(i), "dict") THEN get(PayloadOf(i), k, PyNone) ELSE PayloadOf(i)
MergeKeys == {lit.a, lit.b, lit.main, lit.out, lit.x}

\* C15: when two or more edges deliver a payload to the main handle of the
\* node, inputs.main is a mapping holding exactly the keys some delivery
\* defines (the keys of a mapping payload; the source id for a payload that is
\* no mapping), each with the value of the last edge in list order that
\* defines it.
C15_MainMergeLaterWins ==
  (ret # Pending /\ Cardinality(MainDeliveries) >= 2) =>
    LET main == get(ret[2], lit.main, PyNone) IN
    /\ HasKey(ret[2], lit.main)
    /\ isinstance(main, "dict")
    /\ \A k \in MergeKeys :
         LET definers == {i \in MainDeliveries : Defines(i, k)} IN
         IF definers = {} THEN ~HasKey(main, k)
         ELSE /\ HasKey(main, k)
              /\ get(main, k, PyNone) =
                   ValueFor(CHOOSE i \in definers : \A j \in definers : j <= i, k)
    /\ \A j \in 1..Len(Items(main)) : Items(main)[j][1] \in MergeKeys

\* C15 witness: payloads {a:1} then {a:2, b:3} on two edges into main gave
\* inputs.main = {a:2, b:3}.
C15_Witness ==
  /\ ret # Pending
  /\ Len(call.edges) = 2
  /\ MainDeliveries = {1, 2}
  /\ PayloadOf(1) = PyDict(<<<<lit.a, PyInt(1)>>>>)
  /\ PayloadOf(2) = PyDict(<<<<lit.a, PyInt(2)>>, <<lit.b, PyInt(3)>>>>)
  /\ get(ret[2], lit.main, PyNone) = PyDict(<<<<lit.a, PyInt(2)>>, <<lit.b, PyInt(3)>>>>)

\* What an output node emitted: the main payload of its stored result.
Emitted == get(ret[2], lit.main, PyNone)

\* C17: once a respond-to-chat node has completed, the run's chat_response is
\* the message the node emitted.
C17_ChatResponseSet ==
  (call.node_type = "respond-to-chat" /\ ret[1] = "return") =>
    ret[3] = get(Emitted, lit.response, PyNone)

\* The main input handed to the node ({} when there is none).
MainInput == get(call.inputs, lit.main, PyDict(<<>>))

\* C18: a readme-viewer node given the empty input {} and the configured
\* content "" shows "work", and given the input {text: "hi"} it shows "hi"
\* whatever content is configured.
C18_ReadmeViewerPriority ==
  (call.node_type = "readme-viewer" /\ ret # Pending) =>
    /\ (MainInput = PyDict(<<>>)
          /\ get(call.properties, lit.content, PyNone) = PyStr(<<>>)) =>
         (ret[1] = "return" /\ get(Emitted, lit.content, PyNone) = PyStr(lit.work))
    /\ MainInput = PyDict(<<<<lit.text, PyStr(lit.hi)>>>>) =>
         (ret[1] = "return" /\ get(Emitted, lit.content, PyNone) = PyStr(lit.hi))

\* The filter's configuration and input as the call gives them.
FilterField == get(call.properties, lit.field, PyStr(<<>>))
FilterOperator == get(call.properties, lit.operator, PyStr(lit.equals))
FilterValue == get(call.properties, lit.value, PyStr(<<>>))
FilterInput == get(call.inputs, lit.main, PyNone)
FieldValue == get(FilterInput, FilterField[2], PyStr(<<>>))
Numeric(v) == float(v)[1] = "return"
BothNumeric == Numeric(FieldValue) /\ Numeric(FilterValue)

\* The filter's predicate: equality and containment are taken on the text of
\* the two values without regard to case, the two comparisons on their
\* numeric values.
PredicateHolds ==
  LET f == lower(str(FieldValue))
      e == lower(str(FilterValue))
  IN  CASE FilterOperator = PyStr(lit.equals) -> f = e
        [] FilterOperator = PyStr(lit.notEquals) -> f # e
        [] FilterOperator = PyStr(lit.contains) -> substring(e, f)
        [] FilterOperator = PyStr(lit.greaterThan) ->
             BothNumeric /\ float(FieldValue)[2] > float(FilterValue)[2]
        [] FilterOperator = PyStr(lit.lessThan) ->
             BothNumeric /\ float(FieldValue)[2] < float(FilterValue)[2]

\* C19: a filter with a configured field and one of the five operators, given
\* a mapping as its main input, returns {main: input} when its predicate
\* holds and {main: null} when it does not, and never raises; greaterThan and
\* lessThan on a field or value that is no number give {main: null}.
C19_FilterSemantics ==
  (/\ ret # Pending
   /\ HasKey(call.inputs, lit.main) /\ isinstance(FilterInput, "dict")
   /\ bool(FilterField)
   /\ FilterOperator \in {PyStr(lit.equals), PyStr(lit.notEquals), PyStr(lit.contains),
                          PyStr(lit.greaterThan), PyStr(lit.lessThan)}) =>
    /\ ret[1] = "return"
    /\ PredicateHolds => ret[2] = PyDict(<<<<lit.main, FilterInput>>>>)
    /\ ~PredicateHolds => ret[2] = PyDict(<<<<lit.main, PyNone>>>>)
    /\ (FilterOperator \in {PyStr(lit.greaterThan), PyStr(lit.lessThan)} /\ ~BothNumeric) =>
         ret[2] = PyDict(<<<<lit.main, PyNone>>>>)

\* C19 witness: greaterThan 5 on the field value "abc" returned {main: null}.
C19_Witness ==
  /\ FilterOperator = PyStr(lit.greaterThan)
  /\ bool(FilterField)
  /\ FilterInput = PyDict(<<<<lit.status, PyStr(lit.abc)>>>>)
  /\ FilterValue = PyInt(5)
  /\ ret = Return(PyDict(<<<<lit.main, PyNone>>>>))

\* The value a path of keys leads to in a structure, None when a key is absent
\* or the walk meets something that is not a mapping.
RECURSIVE ValueAt(_, _)
ValueAt(obj, keys) ==
  IF keys = <<>> THEN obj
  ELSE IF isinstance(obj, "dict") /\ HasKey(obj, Head(keys))
  THEN ValueAt(get(obj, Head(keys), PyNone), Tail(keys))
  ELSE PyNone

\* C20: evaluating the template "${{ json.<path> }}" returns the value found at
\* that path in context.json (as it is, or as its text), and when nothing is
\* found at the path it returns None or the empty text, and never raises.
C20_JsonPathTemplate ==
  \A path \in Paths :
    (ret # Pending /\ call.expression = PyStr(JsonTemplate(path))) =>
      LET found == ValueAt(get(call.context, lit.json, PyDict(<<>>)), path) IN
      /\ ret[1] = "return"
      /\ IF found # PyNone
         THEN ret[2] \in {found, PyStr(str(found))}
         ELSE ret[2] \in {PyNone, PyStr(<<>>)}

\* The output an expression reads of an executed node: its main payload when
\* the stored result is a mapping with main, else the stored result.
NodeData(node_id) ==
  LET node_result == get(get(call.context, lit.node_results, PyDict(<<>>)), node_id, PyNone)
  IN  IF isinstance(node_result, "dict") /\ HasKey(node_result, lit.main)
      THEN get(node_result, lit.main, PyNone)
      ELSE node_result

\* C21: "$json.<nodeId>.<path>", with nodeId an executed node whose output has
\* a value at the path, evaluates to that value (as it is, or as its text),
\* whatever the current node's input holds.
C21_NodeReference ==
  \A node_id \in {lit.a, lit.b}, path \in {<<lit.name>>, <<lit.user, lit.name>>} :
    (/\ ret # Pending
     /\ call.expression = PyStr(NodeTemplate(node_id, path))
     /\ HasKey(get(call.context, lit.node_results, PyDict(<<>>)), node_id)
     /\ ValueAt(NodeData(node_id), path) # PyNone) =>
      LET found == ValueAt(NodeData(node_id), path) IN
      ret[2] \in {found, PyStr(str(found))}

DistinctExecutionIds == tasks[1].execution_id # tasks[2].execution_id
BothReturned == \A r \in Runs : tasks[r].pc = "returned"

\* C22: of two runs with distinct execution ids, a step that changes the Context
\* of one is a step of that run and leaves the other run as it was, and once
\* both have returned get_execution of each id gives that run's own Context.
C22_RunsIsolated ==
  /\ [][\A r \in Runs :
          (DistinctExecutionIds /\ tasks'[r].context # tasks[r].context) =>
            /\ tasks'[r].pc # tasks[r].pc
            /\ \A o \in Runs \ {r} : tasks'[o] = tasks[o]]_vars
  /\ []((DistinctExecutionIds /\ BothReturned) =>
          \A r \in Runs : get_execution(tasks[r].execution_id) = tasks[r].context)

\* Both runs returned, one completed and one failed, each found under its id.
C22_Witness ==
  /\ tasks # <<>>
  /\ DistinctExecutionIds /\ BothReturned
  /\ tasks[1].context.status = "completed" /\ tasks[2].context.status = "error"
  /\ tasks[1].context.execution_order = <<"a", "b">>
  /\ get_execution(tasks[2].execution_id) = tasks[2].context

\* The moment a node with incoming edges becomes ready in a FIFO Kahn run that
\* produced the order: the position of the last of its sources to be taken,
\* and the place in the edge list of that source's last edge to the node.
ReadyKey(order, n) ==
  LET keys == {<<IndexOf(order, edges[i].source), i>> :
                 i \in {j \in 1..Len(edges) : edges[j].target = n}}
  IN  CHOOSE k \in keys :
        \A j \in keys : j[1] < k[1] \/ (j[1] = k[1] /\ j[2] <= k[2])

\* n is taken before m in the FIFO Kahn reference order.
KahnBefore(order, n, m) ==
  LET initial(x) == \A i \in 1..Len(edges) : edges[i].target # x IN
  IF initial(n) /\ initial(m) THEN IndexOf(nodes, n) < IndexOf(nodes, m)
  ELSE IF initial(n) \/ initial(m) THEN initial(n)
  ELSE LET kn == ReadyKey(order, n)
           km == ReadyKey(order, m)
       IN  kn[1] < km[1] \/ (kn[1] = km[1] /\ kn[2] < km[2])

\* C23: for an acyclic graph (distinct node ids, edges between nodes of the
\* list) _topological_sort returns a permutation of the node ids in the FIFO
\* Kahn order: nodes without incoming edge first, in node-list order, then the
\* others in the order in which their in-degree reached zero.
C23_KahnReference ==
  (ret # <<"pending">> /\ UniqueIds /\ EdgesNameNodes /\ ~HasCycle) =>
    LET order == ret[2].order IN
    /\ ret[2].raised = "none"
    /\ Len(order) = Len(nodes) /\ Range(order) = NodeIds
    /\ \A n \in NodeIds : \A m \in NodeIds \ {n} :
         IndexOf(order, n) < IndexOf(order, m) <=> KahnBefore(order, n, m)

\* A sort that changed the list order: the third node has an edge to the
\* second, so it is taken before it.
C23_Witness ==
  /\ ret # <<"pending">> /\ UniqueIds /\ EdgesNameNodes /\ ~HasCycle
  /\ nodes = <<"a", "b", "c">>
  /\ ret[2].order = <<"a", "c", "b">>

\* The edges of the call that deliver a payload to the handle aux of the node.
AuxDeliveries ==
  {i \in 1..Len(call.edges) :
     /\ get(call.edges[i], lit.target, PyNone) = call.node_id
     /\ HandleOf(call.edges[i], lit.targetHandle) = PyStr(lit.aux)
     /\ HasKey(call.node_results, SourceOf(i))}

Supplied == call.nodes[1]
Current == ret[2][1]
Keys(d) == [i \in 1..Len(Items(d)) |-> Items(d)[i][1]]
DataOf(node) == get(node, lit.data, PyNone)
PropertiesOf(node) == get(DataOf(node), lit.properties, PyDict(<<>>))

\* Each property value that is a string containing "${{" is now its evaluated
\* form, every other value is what it was, and the keys are the same.
PropertiesReplaced ==
  /\ Keys(PropertiesOf(Current)) = Keys(PropertiesOf(Supplied))
  /\ \A i \in 1..Len(Items(PropertiesOf(Supplied))) :
       LET value == Items(PropertiesOf(Supplied))[i][2]
           now == Items(PropertiesOf(Current))[i][2]
       IN  IF isinstance(value, "str") /\ substring(<<"$", "{", "{">>, value[2])
           THEN now = evaluate_expression(value, eval_context(call.inputs))
           ELSE now = value

\* What holds of the caller's node list at every stage; data_keys are the keys
\* the dispatched node's data may have once its properties were evaluated.
NodeFrame(data_keys) ==
  /\ ret[2][2] = call.nodes[2]
  /\ ret[1] = "supplied" => Current = Supplied
  /\ Keys(Current) = Keys(Supplied)
  /\ get(Current, lit.id, PyNone) = get(Supplied, lit.id, PyNone)
  /\ get(DataOf(Current), lit.type, PyNone) = get(DataOf(Supplied), lit.type, PyNone)
  /\ IF ret[1] \in {"dispatched", "completed"}
          \/ (ret[1] = "error" /\ isinstance(PropertiesOf(Supplied), "dict"))
     THEN Keys(DataOf(Current)) \in data_keys /\ PropertiesReplaced
     ELSE Current = Supplied

\* C25: execute_node changes nothing of the caller's node definitions except
\* the property values of the dispatched node that are strings containing
\* "${{", which are replaced by their evaluated forms and stay so when the node
\* completes or fails; the node's keys, id, type, the keys of its data and its
\* other property values are what the caller supplied.
C25_OnlyTemplatesReplaced == NodeFrame({Keys(DataOf(Supplied))})

\* C25 as amended: as above, except that a dispatched node whose data has no
\* properties key has one afterwards, holding an empty mapping.
C25_PropertiesKeyAdded ==
  NodeFrame({IF HasKey(DataOf(Supplied), lit.properties)
             THEN Keys(DataOf(Supplied))
             ELSE Append(Keys(DataOf(Supplied)), lit.properties)})

\* C25 witness: the node completed; its message template is now "Ada", its
\* plain title is what it was.
C25_Witness ==
  /\ ret[1] = "completed"
  /\ PropertiesOf(Supplied) = PyDict(<<<<lit.message, PyStr(JsonTemplate(<<lit.name>>))>>,
                                     <<lit.title, PyStr(lit.plain)>>>>)
  /\ PropertiesOf(Current) = PyDict(<<<<lit.message, PyStr(lit.Ada)>>,
                                    <<lit.title, PyStr(lit.plain)>>>>)

\* C26: a pause_listener, resume_listener or stop_listener call of the owner
\* that has set the new status always terminates: it returns True, and by then
\* one status_changed event was queued on every open SSE connection; no such
\* call waits forever for listener_lock.
C26_StatusCallsTerminate ==
  \A t \in Threads :
    (threads[t].fn \in StatusFns /\ threads[t].pc = "broadcast")
      ~> (threads[t].result = "True")

\* The status of listener L ("deleted" once it is gone).
ListenerStatus(registry) == IF "L" \in DOMAIN registry THEN registry["L"].status ELSE "deleted"
StatusValid == ListenerStatus(active_listeners) \in {"running", "paused", "stopped", "deleted"}
\* A step that changes the status is running -> paused made by pause_listener,
\* paused -> running made by resume_listener, a step to stopped made by
\* stop_listener, or the deletion.
StatusTransition ==
  LET old == ListenerStatus(active_listeners)
      new == ListenerStatus(active_listeners')
      by(fn) == \E t \in Threads : threads[t].fn = fn /\ threads[t].pc = "locked"
                                     /\ threads'[t].pc # "locked"
  IN  old # new =>
        \/ old = "running" /\ new = "paused" /\ by("pause_listener")
        \/ old = "paused" /\ new = "running" /\ by("resume_listener")
        \/ new = "stopped" /\ by("stop_listener")
        \/ new = "deleted" /\ by("delete_listener")
\* A pause_listener or resume_listener call made on the stopped listener
\* returns False.
StoppedRefuses ==
  \A t \in Threads :
    (ListenerStatus(active_listeners) = "stopped" /\ threads[t].pc = "call"
       /\ threads[t].fn \in {"pause_listener", "resume_listener"})
      ~> (threads[t].result = "False")

\* C27: the status of a listener is running, paused or stopped; it changes
\* only from running to paused by pause_listener, from paused to running by
\* resume_listener and to stopped by stop_listener; on a stopped listener
\* pause_listener and resume_listener return False, and the status stays
\* stopped until the listener is deleted.
C27_StatusMachine ==
  /\ []StatusValid
  /\ [][StatusTransition]_vars
  /\ StoppedRefuses

\* Thread t records its request in this step; thread t queues the event of its
\* recorded request on the SSE connections in this step.
Records(t) ==
  /\ threads[t].fn = "record_webhook_request" /\ threads[t].pc = "locked"
  /\ threads'[t].pc = "broadcast"
Broadcasts(t) ==
  /\ threads[t].fn = "record_webhook_request" /\ threads[t].pc = "broadcast_locked"
  /\ threads'[t].pc = "after_broadcast"
HistoryOf(registry) ==
  IF "L" \in DOMAIN registry
  THEN <<registry["L"].events, registry["L"].request_count>> ELSE <<>>
WebhookEventsQueued(connections) ==
  IF "L" \in DOMAIN connections
  THEN {<<i, j>> \in (1..Len(connections["L"])) \X (1..3) :
          /\ j <= Len(connections["L"][i].queue)
          /\ connections["L"][i].queue[j].type = "webhook_request"}
  ELSE {}

\* C28: whatever the interleaving of the webhook handler with pause_listener,
\* stop_listener and delete_listener calls of other threads, a request is
\* recorded on the listener (event appended, request counted, event
\* broadcast) only while the status of the listener is running.
C28_RecordedOnlyWhileRunning ==
  [][/\ \A t \in Threads :
          (Records(t) \/ Broadcasts(t)) => ListenerStatus(active_listeners) = "running"
     /\ (HistoryOf(active_listeners') # HistoryOf(active_listeners)
           /\ "L" \in DOMAIN active_listeners')
          => \E t \in Threads : Records(t)
     /\ WebhookEventsQueued(listener_sse_connections')
          # WebhookEventsQueued(listener_sse_connections)
          => ListenerStatus(active_listeners) = "running"]_vars

\* A request was recorded and broadcast to an open connection while the
\* owner's pause_listener or stop_listener call was under way, which has
\* changed the status since.
C28_Witness ==
  /\ "L" \in DOMAIN active_listeners
  /\ active_listeners["L"].request_count >= 1
  /\ active_listeners["L"].status # "running"
  /\ WebhookEventsQueued(listener_sse_connections) # {}
  /\ \E t \in Threads : threads[t].fn = "record_webhook_request" /\ threads[t].pc = "done"

\* The number of record_webhook_request calls that have recorded their
\* request so far (the requests are numbered 1, 2, ... in the order of the calls).
RequestsRecorded ==
  IF threads[1].pc \in {"call", "locked"}
  THEN threads[1].event.request_id - 1 ELSE threads[1].event.request_id

\* C29: after any sequence of record_webhook_request calls the events list of
\* the listener holds at most 100 entries, the most recently recorded ones in
\* the order of their arrival, and request_count is the number of requests
\* recorded since the listener was created.
C29_LastHundredKept ==
  LET listener == active_listeners["L"]
      kept == Len(listener.events)
  IN  /\ kept <= 100
      /\ kept = IF RequestsRecorded <= 100 THEN RequestsRecorded ELSE 100
      /\ \A i \in 1..kept :
           listener.events[i] =
             ListenerEvent("webhook_request", "", RequestsRecorded - kept + i)
      /\ listener.request_count = RequestsRecorded

\* More than 100 requests were recorded and the oldest ones are gone.
C29_Witness ==
  /\ active_listeners["L"].request_count > 100
  /\ Len(active_listeners["L"].events) = 100
  /\ active_listeners["L"].events[1].request_id > 1

\* Thread t makes a pause, resume, stop or delete call with the id of a user
\* who does not own the listener.
ForeignCall(t) ==
  /\ threads[t].fn \in StatusFns \cup {"delete_listener"}
  /\ "L" \in DOMAIN active_listeners
  /\ threads[t].user_id # active_listeners["L"].user_id

\* C30: pause_listener, resume_listener, stop_listener and delete_listener
\* called with a user id that is not the listener's return False, leave the
\* status, the events, the request count and the registered SSE connections
\* of the listener as they were, and emit no event.
C30_ForeignCallRefused ==
  [][\A t \in Threads :
       (ForeignCall(t) /\ threads'[t] # threads[t]) =>
         /\ UNCHANGED <<active_listeners, listener_sse_connections>>
         /\ threads'[t].pc \in {"locked", "done"}
         /\ threads'[t].event = threads[t].event
         /\ threads'[t].pc = "done" => threads'[t].result = "False"]_vars

\* Another user's stop_listener call has returned False; the listener is
\* running and its open connection has received nothing.
C30_Witness ==
  \E t \in Threads :
    /\ ForeignCall(t)
    /\ threads[t].fn = "stop_listener" /\ threads[t].pc = "done"
    /\ threads[t].result = "False"
    /\ active_listeners["L"].status = "running"
    /\ Len(listener_sse_connections["L"]) >= 1
    /\ listener_sse_connections["L"][1].queue = <<>>

====
